---- MODULE Spec2Model ----
(***************************************************************************)
(* Model of lib/Frontend/ParseableInterfaceModuleLoader.cpp: the loader    *)
(* that resolves a .swiftinterface to a loadable .swiftmodule through the  *)
(* user cache, the prebuilt cache, an adjacent binary or a fresh build.    *)
(*                                                                         *)
(* Paths are sequences of one-character strings, so that the prefix,       *)
(* extension and separator tests of the code are computed, not assumed.    *)
(* "m" stands for the swiftmodule extension, "i" for swiftinterface.       *)
(***************************************************************************)
EXTENDS Integers, Sequences, FiniteSets, TLC

VARIABLES
    fs,       \* the filesystem: path -> file
    loadMode, \* ModuleLoadingMode of the loader (fixed at construction)
    dir,      \* DirPath the loader is asked to look in
    pc,       \* position of the load in progress: "idle" or "discovered"
    cur,      \* the load in progress, or the last completed one
    prev,     \* summary of the load completed before cur
    dirty,    \* some file was changed from outside since the last discovery
    nLoads,   \* loads started
    nEnv      \* changes made to the files from outside the loader

vars == <<fs, loadMode, dir, pc, cur, prev, dirty, nLoads, nEnv>>

-----------------------------------------------------------------------------
(* Bounds of the model *)

MaxLoads == 2
MaxEnv == 2
\* width of the modelled hash_code (the code's is 64 bits)
HashBits == 12

-----------------------------------------------------------------------------
(* Strings and paths *)

Sep == "/"

SDKPath == <<"/", "S">>
CacheDir == <<"/", "C">>
PrebuiltCacheDir == <<"/", "B">>
OtherDir == <<"/", "P">>
ModuleName == <<"F">>
ModuleFilename == <<"F", ".", "m">>
SwiftModuleExt == <<"m">>
SwiftInterfaceExt == <<"i">>
ArchName == <<"x">>
SwiftFullVersion == <<"5">>
\* a header inside the SDK, recorded SDK-relative by the builder
DepA == <<"/", "S", "/", "a">>

Last(s) == s[Len(s)]

StartsWith(s, p) ==
    /\ Len(p) <= Len(s)
    /\ SubSeq(s, 1, Len(p)) = p

\* index of the last occurrence of c in s, 0 when there is none
RECURSIVE LastIndexFrom(_, _, _)
LastIndexFrom(s, c, i) ==
    IF i = 0 THEN 0
    ELSE IF s[i] = c THEN i
    ELSE LastIndexFrom(s, c, i - 1)

LastIndexOf(s, c) == LastIndexFrom(s, c, Len(s))

\* llvm::sys::path::append with one component
PathAppend(p, c) ==
    IF p = <<>> THEN c
    ELSE IF Last(p) = Sep THEN p \o c
    ELSE p \o <<Sep>> \o c

\* llvm::sys::path::filename
PathFilename(p) == SubSeq(p, LastIndexOf(p, Sep) + 1, Len(p))

\* llvm::sys::path::parent_path
PathParent(p) ==
    LET k == LastIndexOf(p, Sep)
    IN  IF k = 0 THEN <<>>
        ELSE IF k = 1 THEN <<Sep>>
        ELSE SubSeq(p, 1, k - 1)

\* llvm::sys::path::extension: from the last dot of the filename, dot included
PathExtension(p) ==
    LET f == PathFilename(p)
        k == LastIndexOf(f, ".")
    IN  IF k = 0 THEN <<>> ELSE SubSeq(f, k, Len(f))

\* llvm::sys::path::replace_extension
PathReplaceExtension(p, ext) ==
    LET e == PathExtension(p)
    IN  SubSeq(p, 1, Len(p) - Len(e)) \o <<".">> \o ext

\* the components path::begin .. path::end iterate over: the root, then the
\* names between separators
RECURSIVE SplitPath(_, _, _)
SplitPath(p, i, acc) ==
    IF i > Len(p) THEN (IF acc = <<>> THEN <<>> ELSE <<acc>>)
    ELSE IF p[i] = Sep
         THEN (IF acc = <<>> THEN <<>> ELSE <<acc>>) \o SplitPath(p, i + 1, <<>>)
         ELSE SplitPath(p, i + 1, Append(acc, p[i]))

PathComponents(p) ==
    (IF p # <<>> /\ p[1] = Sep THEN <<(<<Sep>>)>> ELSE <<>>) \o SplitPath(p, 1, <<>>)

\* hasPrefix over path components
HasPathPrefix(p, pre) ==
    LET a == PathComponents(p)
        b == PathComponents(pre)
    IN  /\ Len(b) <= Len(a)
        /\ SubSeq(a, 1, Len(b)) = b

-----------------------------------------------------------------------------
(* Files *)

\* llvm::xxHash64 of a file's bytes, at the model's width
xxHash64(bytes) == (bytes * 37 + 11) % (2 ^ HashBits)

NoBody == [kind |-> "none"]

NoFile ==
    [exists |-> FALSE, readable |-> FALSE, size |-> 0, mtime |-> 0, bytes |-> 0,
     body |-> NoBody]

MkFile(size, mtime, bytes, body) ==
    [exists |-> TRUE, readable |-> TRUE, size |-> size, mtime |-> mtime,
     bytes |-> bytes, body |-> body]

\* fs.status(path)
Status(f, path) == IF path \in DOMAIN f THEN f[path] ELSE NoFile

StatOK(f, path) == Status(f, path).exists

\* fs.getBufferForFile(path) succeeds
CanOpen(f, path) == Status(f, path).exists /\ Status(f, path).readable

\* the error of a failed getBufferForFile
OpenError(f, path) ==
    IF ~Status(f, path).exists THEN "NotFound" ELSE "PermissionDenied"

\* SerializationOptions::FileDependency
ModTimeBased(path, isSDKRelative, size, mtime) ==
    [path |-> path, sdkRel |-> isSDKRelative, size |-> size, hashBased |-> FALSE,
     value |-> mtime]

HashBased(path, isSDKRelative, size, hash) ==
    [path |-> path, sdkRel |-> isSDKRelative, size |-> size, hashBased |-> TRUE,
     value |-> hash]

\* a serialized AST: the magic, a control block that validates or not, and
\* the embedded dependency list
ASTBody(valid, deps) == [kind |-> "ast", valid |-> valid, deps |-> deps]

\* bytes that are neither a serialized AST nor a YAML document
JunkBody == [kind |-> "junk"]

\* a .swiftinterface: its format version, the module name its flags give,
\* and the files its compilation reads
InterfaceBody(hasVers, vers, hasFlags, name, imports) ==
    [kind |-> "interface", hasVers |-> hasVers, vers |-> vers,
     hasFlags |-> hasFlags, name |-> name, imports |-> imports]

-----------------------------------------------------------------------------
(* Forwarding modules and their YAML form *)

\* struct ForwardingModule
ForwardingModule(underlyingModulePath, dependencies, version) ==
    [underlyingModulePath |-> underlyingModulePath,
     dependencies |-> dependencies, version |-> version]

\* ForwardingModule::addDependency
FwdAddDependency(fwd, path, size, modTime) ==
    [fwd EXCEPT !.dependencies =
        Append(@, [path |-> path, size |-> size, lastModificationTime |-> modTime])]

\* A YAML mapping is a sequence of <<key, value>> entries in document order.
YamlKeys(doc) == {doc[i][1] : i \in DOMAIN doc}

YamlGet(doc, key) == doc[CHOOSE i \in DOMAIN doc : doc[i][1] = key][2]

\* the dependency mapping had it written the size under "mtime" and the
\* modification time under "size"
YamlOutputDependencySwapped(dep) ==
    << <<"mtime", dep.size>>, <<"path", dep.path>>,
       <<"size", dep.lastModificationTime>> >>

\* MappingTraits<ForwardingModule::Dependency>::mapping, writing
YamlOutputDependency(dep) ==
    << <<"mtime", dep.lastModificationTime>>, <<"path", dep.path>>,
       <<"size", dep.size>> >>

\* MappingTraits<ForwardingModule>::mapping, writing
YamlOutput(fwd) ==
    << <<"path", fwd.underlyingModulePath>>,
       <<"dependencies",
         [i \in DOMAIN fwd.dependencies |-> YamlOutputDependency(fwd.dependencies[i])]>>,
       <<"version", fwd.version>> >>

YamlBody(doc) == [kind |-> "yaml", doc |-> doc]

\* mapRequired: every required key is present once and no other key is
YamlMappingOK(doc, required) ==
    /\ YamlKeys(doc) = required
    /\ Len(doc) = Cardinality(required)

\* MappingTraits<ForwardingModule::Dependency>::mapping, reading
YamlInputDependency(doc) ==
    [path |-> YamlGet(doc, "path"), size |-> YamlGet(doc, "size"),
     lastModificationTime |-> YamlGet(doc, "mtime")]

\* yamlIn >> fwd: the error flag and the value read
YamlInput(body) ==
    IF body.kind # "yaml" THEN [error |-> TRUE, fwd |-> ForwardingModule(<<>>, <<>>, 1)]
    ELSE IF ~YamlMappingOK(body.doc, {"path", "dependencies", "version"})
         THEN [error |-> TRUE, fwd |-> ForwardingModule(<<>>, <<>>, 1)]
    ELSE LET ds == YamlGet(body.doc, "dependencies")
         IN  IF \E i \in DOMAIN ds : ~YamlMappingOK(ds[i], {"mtime", "path", "size"})
             THEN [error |-> TRUE, fwd |-> ForwardingModule(<<>>, <<>>, 1)]
             ELSE [error |-> FALSE,
                   fwd |-> ForwardingModule(
                       YamlGet(body.doc, "path"),
                       [i \in DOMAIN ds |-> YamlInputDependency(ds[i])],
                       YamlGet(body.doc, "version"))]

\* ForwardingModule::load: "ok", or the error it returns
ForwardingModuleLoad(body) ==
    LET yamlIn == YamlInput(body)
    IN  IF yamlIn.error THEN [result |-> "YamlError", fwd |-> yamlIn.fwd]
        ELSE IF yamlIn.fwd.version # 1 THEN [result |-> "NotSupported", fwd |-> yamlIn.fwd]
        ELSE [result |-> "ok", fwd |-> yamlIn.fwd]

-----------------------------------------------------------------------------
(* Cache key *)

Alphabet ==
    <<"0", "1", "2", "3", "4", "5", "6", "7", "8", "9", "A", "B", "C", "D", "E",
      "F", "G", "H", "I", "J", "K", "L", "M", "N", "O", "P", "Q", "R", "S", "T",
      "U", "V", "W", "X", "Y", "Z", "/", ".", "-", "a", "i", "m", "x">>

CharCode(c) == CHOOSE i \in DOMAIN Alphabet : Alphabet[i] = c

HashModulus == 2 ^ HashBits

\* llvm::hash_value of a string
RECURSIVE HashValueFrom(_, _, _)
HashValueFrom(s, i, h) ==
    IF i > Len(s) THEN h
    ELSE HashValueFrom(s, i + 1, (h * 31 + CharCode(s[i])) % HashModulus)

hash_value(s) == HashValueFrom(s, 1, 7)

\* llvm::hash_combine(H, v): order-sensitive
hash_combine(h, v) == (h * 33 + v + 1) % HashModulus

\* llvm::APInt::toString(36, unsigned)
RECURSIVE ToBase36(_)
ToBase36(n) ==
    IF n < 36 THEN <<Alphabet[n + 1]>>
    ELSE ToBase36(n \div 36) \o <<Alphabet[(n % 36) + 1]>>

\* getCacheHash
getCacheHash(version, interfacePath, archName, sdkPath, trackSystemDeps) ==
    LET h0 == hash_value(version)
        h1 == hash_combine(h0, hash_value(interfacePath))
        h2 == hash_combine(h1, hash_value(archName))
        h3 == hash_combine(h2, hash_value(sdkPath))
        h4 == hash_combine(h3, IF trackSystemDeps THEN 1 ELSE 0)
    IN  ToBase36(h4)

\* computeCachedOutputPath
computeCachedOutputPath(cacheDir, moduleName, version, interfacePath, archName, sdkPath, trackSystemDeps) ==
    PathAppend(cacheDir, moduleName) \o <<"-">>
        \o getCacheHash(version, interfacePath, archName, sdkPath, trackSystemDeps)
        \o <<".">> \o SwiftModuleExt

-----------------------------------------------------------------------------
(* Dependency freshness *)

\* the path a dependency record names: the SDK root is prepended to
\* SDK-relative records
ResolvedPath(dep) ==
    IF dep.sdkRel THEN PathAppend(SDKPath, dep.path) ELSE dep.path

\* dependencyIsUpToDate had it skipped the content hash of hash-based records
dependencyIsUpToDateNoHash(f, dep, fullPath) ==
    LET status == Status(f, fullPath)
    IN  IF ~status.exists THEN FALSE
        ELSE IF status.size # dep.size THEN FALSE
        ELSE IF ~dep.hashBased THEN status.mtime = dep.value
        ELSE TRUE

\* dependencyIsUpToDate had it accepted any file no older than recorded
dependencyIsUpToDateNewerOK(f, dep, fullPath) ==
    LET status == Status(f, fullPath)
    IN  IF ~status.exists THEN FALSE
        ELSE IF status.size # dep.size THEN FALSE
        ELSE IF ~dep.hashBased THEN status.mtime >= dep.value
        ELSE IF ~CanOpen(f, fullPath) THEN FALSE
        ELSE xxHash64(status.bytes) = dep.value

\* dependencyIsUpToDate had it taken a file that is gone for unchanged
dependencyIsUpToDateMissingOK(f, dep, fullPath) ==
    LET status == Status(f, fullPath)
    IN  IF ~status.exists THEN TRUE
        ELSE IF status.size # dep.size THEN FALSE
        ELSE IF ~dep.hashBased THEN status.mtime = dep.value
        ELSE IF ~CanOpen(f, fullPath) THEN FALSE
        ELSE xxHash64(status.bytes) = dep.value

\* dependencyIsUpToDate
dependencyIsUpToDate(f, dep, fullPath) ==
    LET status == Status(f, fullPath)
    IN  IF ~status.exists THEN FALSE
        ELSE IF status.size # dep.size THEN FALSE
        ELSE IF ~dep.hashBased THEN status.mtime = dep.value
        ELSE IF ~CanOpen(f, fullPath) THEN FALSE
        ELSE xxHash64(status.bytes) = dep.value

\* dependencyIsUpToDate had it read the file before looking at the record
dependencyCheckOpensEagerly(f, dep, fullPath) == Status(f, fullPath).exists

\* dependencyIsUpToDate reads the file's contents: only on the slow path
dependencyCheckOpens(f, dep, fullPath) ==
    /\ Status(f, fullPath).exists
    /\ Status(f, fullPath).size = dep.size
    /\ dep.hashBased

\* index of the first dependency from i on that is out of date, 0 if none
RECURSIVE FirstOutOfDate(_, _, _)
FirstOutOfDate(f, deps, i) ==
    IF i > Len(deps) THEN 0
    ELSE IF ~dependencyIsUpToDate(f, deps[i], ResolvedPath(deps[i])) THEN i
    ELSE FirstOutOfDate(f, deps, i + 1)

\* dependenciesAreUpToDate: the loop returns at the first stale dependency
dependenciesAreUpToDate(f, deps) == FirstOutOfDate(f, deps, 1) = 0

\* the dependencies the loop of dependenciesAreUpToDate looks at, given the
\* index k it stops at
Examined(deps, k) == IF k = 0 THEN deps ELSE SubSeq(deps, 1, k)

DepsExamined(f, deps) == Examined(deps, FirstOutOfDate(f, deps, 1))

\* the files a run of dependenciesAreUpToDate over ex opens, in order
RECURSIVE OpensOf(_, _, _)
OpensOf(f, ex, i) ==
    IF i > Len(ex) THEN <<>>
    ELSE (IF dependencyCheckOpens(f, ex[i], ResolvedPath(ex[i]))
          THEN <<ResolvedPath(ex[i])>> ELSE <<>>) \o OpensOf(f, ex, i + 1)

\* what a run of dependenciesAreUpToDate over ex reports to the tracker
TrackedOf(ex) == {<<ResolvedPath(ex[i]), ex[i].sdkRel>> : i \in DOMAIN ex}

\* serialization::validateSerializedAST: the status, and the dependency list
\* with the module's embedded records appended
validateSerializedAST(body, deps) ==
    IF body.kind = "ast" /\ body.valid
    THEN [valid |-> TRUE, deps |-> deps \o body.deps]
    ELSE [valid |-> FALSE, deps |-> deps]

\* serialization::isSerializedAST: the magic prefix
isSerializedAST(body) == body.kind = "ast"

\* serializedASTLooksValid
serializedASTLooksValid(body) == validateSerializedAST(body, <<>>).valid

-----------------------------------------------------------------------------
(* Discovery *)

\* what one probe of discovery yields: whether it found an up-to-date module,
\* the module, the shared dependency vector as the probe leaves it, the files
\* it tried to open and what it reported to the dependency tracker
Probe(hit, kind, path, buf, deps, opens, tracked) ==
    [hit |-> hit, kind |-> kind, path |-> path, buf |-> buf, deps |-> deps,
     opens |-> opens, tracked |-> tracked]

\* a probe that ends in dependenciesAreUpToDate(all); opened are the files it
\* opened before, ex the dependencies the loop looks at
CheckedProbe(f, kind, path, buf, all, opened, ex) ==
    Probe(dependenciesAreUpToDate(f, all), kind, path, buf, all,
          opened \o OpensOf(f, ex, 1), TrackedOf(ex))

\* serializedASTBufferIsUpToDate had it checked the module's own records
\* alone while still appending them to the vector it was handed
serializedASTBufferIsUpToDateOwnOnly(f, kind, path, buf, allDeps) ==
    IF ~validateSerializedAST(buf.body, allDeps).valid
    THEN Probe(FALSE, kind, path, buf, validateSerializedAST(buf.body, allDeps).deps,
               <<path>>, {})
    ELSE Probe(dependenciesAreUpToDate(f, buf.body.deps), kind, path, buf,
               validateSerializedAST(buf.body, allDeps).deps,
               <<path>> \o OpensOf(f, DepsExamined(f, buf.body.deps), 1),
               TrackedOf(DepsExamined(f, buf.body.deps)))

\* serializedASTBufferIsUpToDate on the buffer read from path
serializedASTBufferIsUpToDate(f, kind, path, buf, allDeps) ==
    IF ~validateSerializedAST(buf.body, allDeps).valid
    THEN Probe(FALSE, kind, path, buf, validateSerializedAST(buf.body, allDeps).deps,
               <<path>>, {})
    ELSE CheckedProbe(f, kind, path, buf, validateSerializedAST(buf.body, allDeps).deps,
                      <<path>>,
                      DepsExamined(f, validateSerializedAST(buf.body, allDeps).deps))

\* swiftModuleIsUpToDate
swiftModuleIsUpToDate(f, kind, modulePath, AllDeps) ==
    IF ~CanOpen(f, modulePath)
    THEN Probe(FALSE, kind, modulePath, NoFile, AllDeps, <<modulePath>>, {})
    ELSE serializedASTBufferIsUpToDate(f, kind, modulePath, f[modulePath], AllDeps)

\* the records forwardingModuleIsUpToDate pushes for the forwarding module's
\* dependencies
FwdRecords(fwd) ==
    [i \in DOMAIN fwd.dependencies |->
        ModTimeBased(fwd.dependencies[i].path, FALSE, fwd.dependencies[i].size,
                     fwd.dependencies[i].lastModificationTime)]

\* forwardingModuleIsUpToDate had it also checked the records embedded in the
\* underlying module
forwardingModuleIsUpToDateWithEmbedded(f, fwdPath, fwd, deps) ==
    IF ~CanOpen(f, fwd.underlyingModulePath)
       \/ ~serializedASTLooksValid(Status(f, fwd.underlyingModulePath).body)
       \/ ~dependenciesAreUpToDate(f, Status(f, fwd.underlyingModulePath).body.deps)
    THEN Probe(FALSE, "Forwarded", fwd.underlyingModulePath, NoFile, deps,
               <<fwdPath, fwd.underlyingModulePath>>, {})
    ELSE CheckedProbe(f, "Forwarded", fwd.underlyingModulePath,
                      f[fwd.underlyingModulePath], deps \o FwdRecords(fwd),
                      <<fwdPath, fwd.underlyingModulePath>>,
                      DepsExamined(f, deps \o FwdRecords(fwd)))

\* forwardingModuleIsUpToDate, for the forwarding module read from fwdPath
forwardingModuleIsUpToDate(f, fwdPath, fwd, deps) ==
    IF ~CanOpen(f, fwd.underlyingModulePath)
       \/ ~serializedASTLooksValid(Status(f, fwd.underlyingModulePath).body)
    THEN Probe(FALSE, "Forwarded", fwd.underlyingModulePath, NoFile, deps,
               <<fwdPath, fwd.underlyingModulePath>>, {})
    ELSE CheckedProbe(f, "Forwarded", fwd.underlyingModulePath,
                      f[fwd.underlyingModulePath], deps \o FwdRecords(fwd),
                      <<fwdPath, fwd.underlyingModulePath>>,
                      DepsExamined(f, deps \o FwdRecords(fwd)))

\* computePrebuiltModulePath had it not asked where the interface lies
computePrebuiltModulePathAnywhere(sdkPath, interfacePath, modulePath, prebuiltCacheDir, moduleName) ==
    [some |-> TRUE,
     path |-> PathAppend(
         IF PathExtension(PathFilename(PathParent(interfacePath)))
                = <<".">> \o SwiftModuleExt
         THEN PathAppend(prebuiltCacheDir, PathFilename(PathParent(interfacePath)))
         ELSE prebuiltCacheDir,
         PathFilename(modulePath))]

\* computePrebuiltModulePath: None, or the candidate in the prebuilt cache
computePrebuiltModulePath(sdkPath, interfacePath, modulePath, prebuiltCacheDir, moduleName) ==
    IF sdkPath = <<>> \/ ~HasPathPrefix(interfacePath, sdkPath)
    THEN [some |-> FALSE, path |-> <<>>]
    ELSE [some |-> TRUE,
          path |-> PathAppend(
              IF PathExtension(PathFilename(PathParent(interfacePath)))
                     = <<".">> \o SwiftModuleExt
              THEN PathAppend(prebuiltCacheDir, PathFilename(PathParent(interfacePath)))
              ELSE prebuiltCacheDir,
              PathFilename(modulePath))]

\* discovery, the branch for a cache entry that is no serialized AST
ForwardingProbe(f, cachedOutputPath, forwardingModule, deps) ==
    IF forwardingModule.result # "ok"
    THEN Probe(FALSE, "Forwarded", cachedOutputPath, NoFile, deps,
               <<cachedOutputPath>>, {})
    ELSE forwardingModuleIsUpToDate(f, cachedOutputPath, forwardingModule.fwd, deps)

\* the user-cache probe had it inverted the test for a forwarding module
UserCacheProbeInverted(f, cachedOutputPath, deps) ==
    IF ~CanOpen(f, cachedOutputPath)
    THEN Probe(FALSE, "Normal", cachedOutputPath, NoFile, deps, <<cachedOutputPath>>, {})
    ELSE IF isSerializedAST(f[cachedOutputPath].body)
    THEN ForwardingProbe(f, cachedOutputPath,
                         ForwardingModuleLoad(f[cachedOutputPath].body), deps)
    ELSE serializedASTBufferIsUpToDate(f, "Normal", cachedOutputPath,
                                       f[cachedOutputPath], deps)

\* discovery, the user-cache probe (first)
UserCacheProbe(f, cachedOutputPath, deps) ==
    IF ~CanOpen(f, cachedOutputPath)
    THEN Probe(FALSE, "Normal", cachedOutputPath, NoFile, deps, <<cachedOutputPath>>, {})
    ELSE IF ~isSerializedAST(f[cachedOutputPath].body)
    THEN ForwardingProbe(f, cachedOutputPath,
                         ForwardingModuleLoad(f[cachedOutputPath].body), deps)
    ELSE serializedASTBufferIsUpToDate(f, "Normal", cachedOutputPath,
                                       f[cachedOutputPath], deps)

\* discovery, the prebuilt-cache probe (second), for the candidate path
PrebuiltProbe(f, prebuiltCacheDir, path, deps) ==
    IF prebuiltCacheDir = <<>> \/ ~path.some
    THEN Probe(FALSE, "Prebuilt", <<>>, NoFile, deps, <<>>, {})
    ELSE swiftModuleIsUpToDate(f, "Prebuilt", path.path, deps)

\* the adjacent probe had it treated every failure to open as an absent file
AdjacentProbeOpenFailureMisses(f, modulePath, deps) ==
    IF CanOpen(f, modulePath)
    THEN serializedASTBufferIsUpToDate(f, "NotSupported", modulePath, f[modulePath], deps)
    ELSE Probe(FALSE, "NotSupported", modulePath, NoFile, deps, <<modulePath>>, {})

\* discovery, the adjacent-binary probe (last): an up-to-date binary, or one
\* that cannot be read, defers to the serialized module loader
AdjacentProbe(f, modulePath, deps) ==
    IF CanOpen(f, modulePath)
    THEN serializedASTBufferIsUpToDate(f, "NotSupported", modulePath, f[modulePath], deps)
    ELSE Probe(OpenError(f, modulePath) # "NotFound", "NotSupported", modulePath,
               NoFile, deps, <<modulePath>>, {})

\* a discovery result: the kind found, or the error
Discovered(kind, path, buf, deps, opens, tracked) ==
    [kind |-> kind, path |-> path, buf |-> buf, deps |-> deps, opens |-> opens,
     tracked |-> tracked]

\* discoverUpToDateModuleForInterface after the adjacent probe a
DiscoverAfterAdjacent(u, p, a) ==
    Discovered(IF a.hit THEN "NotSupported" ELSE "NotFound", <<>>, NoFile, a.deps,
               u.opens \o p.opens \o a.opens, u.tracked \cup p.tracked \cup a.tracked)

\* discovery had it probed the adjacent binary in every mode
DiscoverAfterPrebuiltAlwaysAdjacent(f, shouldLoadAdjacentModule, modulePath, u, p) ==
    IF p.hit
    THEN Discovered("Prebuilt", p.path, p.buf, p.deps, u.opens \o p.opens,
                    u.tracked \cup p.tracked)
    ELSE DiscoverAfterAdjacent(u, p, AdjacentProbe(f, modulePath, p.deps))

\* discoverUpToDateModuleForInterface after the prebuilt probe p
DiscoverAfterPrebuilt(f, shouldLoadAdjacentModule, modulePath, u, p) ==
    IF p.hit
    THEN Discovered("Prebuilt", p.path, p.buf, p.deps, u.opens \o p.opens,
                    u.tracked \cup p.tracked)
    ELSE IF ~shouldLoadAdjacentModule
    THEN Discovered("NotFound", <<>>, NoFile, p.deps, u.opens \o p.opens,
                    u.tracked \cup p.tracked)
    ELSE DiscoverAfterAdjacent(u, p, AdjacentProbe(f, modulePath, p.deps))

\* discovery had it reported a cache entry that is there but of no use as
\* an error
DiscoverAfterUserCacheStrict(f, shouldLoadAdjacentModule, sdkPath, interfacePath, modulePath, prebuiltCacheDir, moduleName, u) ==
    IF u.hit THEN Discovered(u.kind, u.path, u.buf, u.deps, u.opens, u.tracked)
    ELSE IF u.opens # <<>> /\ CanOpen(f, u.opens[1])
    THEN Discovered("NotSupported", <<>>, NoFile, u.deps, u.opens, u.tracked)
    ELSE DiscoverAfterPrebuilt(f, shouldLoadAdjacentModule, modulePath, u,
             PrebuiltProbe(f, prebuiltCacheDir,
                 computePrebuiltModulePath(sdkPath, interfacePath, modulePath,
                                           prebuiltCacheDir, moduleName),
                 u.deps))

\* discoverUpToDateModuleForInterface after the user-cache probe u
DiscoverAfterUserCache(f, shouldLoadAdjacentModule, sdkPath, interfacePath, modulePath, prebuiltCacheDir, moduleName, u) ==
    IF u.hit THEN Discovered(u.kind, u.path, u.buf, u.deps, u.opens, u.tracked)
    ELSE DiscoverAfterPrebuilt(f, shouldLoadAdjacentModule, modulePath, u,
             PrebuiltProbe(f, prebuiltCacheDir,
                 computePrebuiltModulePath(sdkPath, interfacePath, modulePath,
                                           prebuiltCacheDir, moduleName),
                 u.deps))

\* discovery had it not returned at once in OnlyParseable mode
discoverIgnoringOnlyParseable(f, mode, sdkPath, interfacePath, modulePath, cachedOutputPath, prebuiltCacheDir, moduleName) ==
    DiscoverAfterUserCache(f, mode # "PreferParseable", sdkPath, interfacePath,
                           modulePath, prebuiltCacheDir, moduleName,
                           UserCacheProbe(f, cachedOutputPath, <<>>))

\* discoverUpToDateModuleForInterface
discoverUpToDateModuleForInterface(f, mode, sdkPath, interfacePath, modulePath, cachedOutputPath, prebuiltCacheDir, moduleName) ==
    IF mode = "OnlyParseable"
    THEN Discovered("NotFound", <<>>, NoFile, <<>>, <<>>, {})
    ELSE DiscoverAfterUserCache(f, mode # "PreferParseable", sdkPath, interfacePath,
                                modulePath, prebuiltCacheDir, moduleName,
                                UserCacheProbe(f, cachedOutputPath, <<>>))

-----------------------------------------------------------------------------
(* Module building *)

\* isCachedModule had it looked in the user cache alone
isCachedModuleUserCacheOnly(DepName, moduleCachePath, prebuiltCachePath) ==
    IF moduleCachePath = <<>> /\ prebuiltCachePath = <<>> THEN FALSE
    ELSE /\ PathExtension(DepName) = <<".">> \o SwiftModuleExt
         /\ moduleCachePath # <<>>
         /\ StartsWith(DepName, moduleCachePath)

\* isCachedModule
isCachedModule(DepName, moduleCachePath, prebuiltCachePath) ==
    IF moduleCachePath = <<>> /\ prebuiltCachePath = <<>> THEN FALSE
    ELSE /\ PathExtension(DepName) = <<".">> \o SwiftModuleExt
         /\ \/ (moduleCachePath # <<>> /\ StartsWith(DepName, moduleCachePath))
            \/ (prebuiltCachePath # <<>> /\ StartsWith(DepName, prebuiltCachePath))

\* collectDepsForSerialization, the rewriting of a path under the SDK:
\* <<IsSDKRelative, DepNameToStore>>
SDKRelativeName(DepName, sdkPath) ==
    IF Len(sdkPath) > 1 /\ StartsWith(DepName, sdkPath) /\ Len(DepName) > Len(sdkPath)
    THEN IF DepName[Len(sdkPath) + 1] = Sep
         THEN <<TRUE, SubSeq(DepName, Len(sdkPath) + 2, Len(DepName))>>
         ELSE IF Last(sdkPath) = Sep
              THEN <<TRUE, SubSeq(DepName, Len(sdkPath) + 1, Len(DepName))>>
              ELSE <<FALSE, DepName>>
    ELSE <<FALSE, DepName>>

\* the state of the loop of collectDepsForSerialization
CollectState(failed, Deps, AllDepNames, tracked) ==
    [failed |-> failed, Deps |-> Deps, AllDepNames |-> AllDepNames, tracked |-> tracked]

\* collectDepsForSerialization, the copy of a cached module's own records
RECURSIVE CollectSubDeps(_, _, _)
CollectSubDeps(st, SubDeps, i) ==
    IF i > Len(SubDeps) THEN st
    ELSE LET SubDep == SubDeps[i]
         IN  IF SubDep.path \in st.AllDepNames
             THEN CollectSubDeps(st, SubDeps, i + 1)
             ELSE CollectSubDeps(
                      CollectState(FALSE, Append(st.Deps, SubDep),
                                   st.AllDepNames \cup {SubDep.path},
                                   st.tracked \cup {<<SubDep.path, SubDep.sdkRel>>}),
                      SubDeps, i + 1)

\* collectDepsForSerialization, the record made for a file that is no cached
\* module
DirectRecord(f, DepName, sdkPath, IsHashBased) ==
    LET rel == SDKRelativeName(DepName, sdkPath)
        status == Status(f, DepName)
    IN  IF IsHashBased
        THEN HashBased(rel[2], rel[1], status.size, xxHash64(status.bytes))
        ELSE ModTimeBased(rel[2], rel[1], status.size, status.mtime)

\* the loop had it passed over a cached module it cannot read or validate
CollectOneSkippingInvalid(f, st, DepName, sdkPath, moduleCachePath, prebuiltCachePath, IsHashBased) ==
    LET rel == SDKRelativeName(DepName, sdkPath)
        st1 == IF DepName \in st.AllDepNames THEN st
               ELSE [st EXCEPT !.AllDepNames = @ \cup {DepName},
                               !.tracked = @ \cup {<<DepName, rel[1]>>}]
    IN  IF isCachedModule(DepName, moduleCachePath, prebuiltCachePath)
        THEN IF ~CanOpen(f, DepName) THEN st1
             ELSE LET VI == validateSerializedAST(f[DepName].body, <<>>)
                  IN  IF ~VI.valid THEN st1
                      ELSE CollectSubDeps(st1, VI.deps, 1)
        ELSE IF ~StatOK(f, DepName) THEN [st1 EXCEPT !.failed = TRUE]
        ELSE IF IsHashBased /\ ~CanOpen(f, DepName) THEN [st1 EXCEPT !.failed = TRUE]
        ELSE [st1 EXCEPT !.Deps = Append(@, DirectRecord(f, DepName, sdkPath, IsHashBased))]

\* collectDepsForSerialization, one turn of the loop over InitialDepNames
CollectOne(f, st, DepName, sdkPath, moduleCachePath, prebuiltCachePath, IsHashBased) ==
    LET rel == SDKRelativeName(DepName, sdkPath)
        st1 == IF DepName \in st.AllDepNames THEN st
               ELSE [st EXCEPT !.AllDepNames = @ \cup {DepName},
                               !.tracked = @ \cup {<<DepName, rel[1]>>}]
    IN  IF isCachedModule(DepName, moduleCachePath, prebuiltCachePath)
        THEN IF ~CanOpen(f, DepName) THEN [st1 EXCEPT !.failed = TRUE]
             ELSE LET VI == validateSerializedAST(f[DepName].body, <<>>)
                  IN  IF ~VI.valid THEN [st1 EXCEPT !.failed = TRUE]
                      ELSE CollectSubDeps(st1, VI.deps, 1)
        ELSE IF ~StatOK(f, DepName) THEN [st1 EXCEPT !.failed = TRUE]
        ELSE IF IsHashBased /\ ~CanOpen(f, DepName) THEN [st1 EXCEPT !.failed = TRUE]
        ELSE [st1 EXCEPT !.Deps = Append(@, DirectRecord(f, DepName, sdkPath, IsHashBased))]

RECURSIVE CollectLoop(_, _, _, _, _, _, _, _)
CollectLoop(f, st, InitialDepNames, i, sdkPath, moduleCachePath, prebuiltCachePath, IsHashBased) ==
    IF i > Len(InitialDepNames) \/ st.failed THEN st
    ELSE CollectLoop(f,
             CollectOne(f, st, InitialDepNames[i], sdkPath, moduleCachePath,
                        prebuiltCachePath, IsHashBased),
             InitialDepNames, i + 1, sdkPath, moduleCachePath, prebuiltCachePath,
             IsHashBased)

\* collectDepsForSerialization: DTDeps are the files the sub-compilation read
collectDepsForSerialization(f, DTDeps, interfacePath, sdkPath, moduleCachePath, prebuiltCachePath, IsHashBased) ==
    CollectLoop(f, CollectState(FALSE, <<>>, {}, {}), Append(DTDeps, interfacePath), 1,
                sdkPath, moduleCachePath, prebuiltCachePath, IsHashBased)

\* the major version of InterfaceFormatVersion
InterfaceFormatMajor == 1

\* where a sub-compilation can fail or crash; "ok" is a clean run
BuildStages == {"ok", "parseArgs", "sema", "silproc", "lateDiag", "crash", "crashLate"}

\* the stages at which the serialization callback has already run
AfterSerialization == {"ok", "lateDiag", "crashLate"}

\* the failures of the sub-compilation itself are diagnosed alike
WhyOf(stage) == IF stage = "ok" THEN "ok" ELSE "subCompilation"

\* serializeToBuffers: the module, with its dependency list, written over
\* whatever the output path held
SerializedFile(old, Deps) ==
    MkFile(1 + Len(Deps), old.mtime + 1, old.bytes + 1, ASTBody(TRUE, Deps))

\* extractSwiftInterfaceVersionAndArgs fails
extractFails(f, interfacePath) ==
    \/ ~CanOpen(f, interfacePath)
    \/ Status(f, interfacePath).body.kind # "interface"
    \/ ~Status(f, interfacePath).body.hasVers
    \/ ~Status(f, interfacePath).body.hasFlags

\* InterfaceFormatVersion: major and minor
InterfaceFormatVersion == <<InterfaceFormatMajor, 0>>

\* swift::version::Version::asMajorVersion: the first component alone
asMajorVersion(Vers) == IF Vers = <<>> THEN <<>> ELSE <<Vers[1]>>

\* the version gate had it compared the whole version
versionRejectedExact(Vers) == Vers # InterfaceFormatVersion

\* the module name check had it been left out
nameMismatchIgnored(actual, expected) == FALSE

\* buildSwiftModule, the module name the flags give against the one asked for
nameMismatch(actual, expected) == actual # expected

\* buildSwiftModule, the version gate
versionRejected(Vers) == asMajorVersion(Vers) # asMajorVersion(InterfaceFormatVersion)

\* buildSwiftModule had it returned SubError alone, a crash caught by the
\* recovery region going unreported
buildFailedIgnoringCrash(RunSuccess, SubError) == SubError

\* buildSwiftModule, its return value: the sub-compilation crashed or set
\* SubError
buildFailed(RunSuccess, SubError) == ~RunSuccess \/ SubError

BuildResult(failed, why, f, buf, tracked) ==
    [failed |-> failed, why |-> why, fs |-> f, buf |-> buf, tracked |-> tracked]

\* buildSwiftModule: stage is where the sub-compilation fails, if it does
buildSwiftModule(f, interfacePath, moduleName, sdkPath, moduleCachePath, prebuiltCachePath, OutPath, ShouldSerializeDeps, IsHashBased, stage) ==
    IF extractFails(f, interfacePath)
    THEN BuildResult(TRUE, "malformed", f, NoFile, {})
    ELSE
    LET in == f[interfacePath].body
    IN  IF versionRejected(in.vers)
        THEN BuildResult(TRUE, "unsupportedVersion", f, NoFile, {})
        ELSE IF stage = "parseArgs" THEN BuildResult(TRUE, WhyOf(stage), f, NoFile, {})
        ELSE IF nameMismatch(in.name, moduleName)
        THEN BuildResult(TRUE, "nameMismatch", f, NoFile, {})
        ELSE IF stage \in {"sema", "crash"}
        THEN BuildResult(TRUE, WhyOf(stage), f, NoFile, {})
        ELSE
        LET c == collectDepsForSerialization(f, in.imports, interfacePath, sdkPath,
                                             moduleCachePath, prebuiltCachePath,
                                             IsHashBased)
            out == SerializedFile(Status(f, OutPath),
                                  IF ShouldSerializeDeps THEN c.Deps ELSE <<>>)
            written == [p \in DOMAIN f \cup {OutPath} |->
                           IF p = OutPath THEN out ELSE f[p]]
        IN  IF c.failed THEN BuildResult(TRUE, "deps", f, NoFile, c.tracked)
            ELSE IF stage \notin AfterSerialization
            THEN BuildResult(TRUE, WhyOf(stage), f, NoFile, c.tracked)
            ELSE BuildResult(buildFailed(stage # "crashLate", stage = "lateDiag"),
                             WhyOf(stage), written, out, c.tracked)

-----------------------------------------------------------------------------
(* Writing forwarding modules *)

\* writeForwardingModule had it left the prebuilt module itself out
ForwardedPathsDepsOnly(modPath, deps) ==
    [i \in DOMAIN deps |-> ResolvedPath(deps[i])]

\* the paths writeForwardingModule stats, in order: the prebuilt module, then
\* each dependency resolved against the SDK
ForwardedPaths(modPath, deps) ==
    <<modPath>> \o [i \in DOMAIN deps |-> ResolvedPath(deps[i])]

\* what a stat result yields when it is read without a check: the size and
\* mtime of the file, or for a failed stat whatever the build produces
StatValues == {<<0, 0>>, <<1, 1>>}

\* writeForwardingModule, the forwarding module it assembles; garbage is what
\* reading a failed stat gives
RECURSIVE AddDependencies(_, _, _, _, _)
AddDependencies(f, fwd, paths, i, garbage) ==
    IF i > Len(paths) THEN fwd
    ELSE LET status == Status(f, paths[i])
             size == IF status.exists THEN status.size ELSE garbage[1]
             mtime == IF status.exists THEN status.mtime ELSE garbage[2]
         IN  AddDependencies(f, FwdAddDependency(fwd, paths[i], size, mtime), paths,
                             i + 1, garbage)

\* writeForwardingModule had it copied size and time from the records that
\* discovery checked instead of statting the files again
assembleForwardingModuleFromRecords(f, modPath, deps, garbage) ==
    [ForwardingModule(modPath, <<>>, 1) EXCEPT !.dependencies =
        <<[path |-> modPath, size |-> Status(f, modPath).size,
           lastModificationTime |-> Status(f, modPath).mtime]>>
          \o [i \in DOMAIN deps |->
                 [path |-> ResolvedPath(deps[i]), size |-> deps[i].size,
                  lastModificationTime |-> deps[i].value]]]

assembleForwardingModule(f, modPath, deps, garbage) ==
    AddDependencies(f, ForwardingModule(modPath, <<>>, 1), ForwardedPaths(modPath, deps),
                    1, garbage)

\* withOutputFile writing the YAML of fwd over whatever outputPath held
ForwardingFile(old, fwd) ==
    MkFile(1 + Len(fwd.dependencies), old.mtime + 1, old.bytes + 1,
           YamlBody(YamlOutput(fwd)))

-----------------------------------------------------------------------------
(* The loader and the files around it *)

LoadModes == {"OnlyParseable", "PreferParseable", "PreferSerialized"}

\* the directories the loader is pointed at: inside the SDK, and outside it
Dirs == {SDKPath, OtherDir}

\* findModuleFilesInDirectory: ModPath and InPath
ModPathOf(d) == PathAppend(d, ModuleFilename)
InPathOf(d) == PathReplaceExtension(ModPathOf(d), SwiftInterfaceExt)

\* findOrBuildLoadableModule: cachedOutputPath (the tracker does not ask for
\* system dependencies)
CachePathOf(d) ==
    computeCachedOutputPath(CacheDir, ModuleName, SwiftFullVersion, InPathOf(d),
                            ArchName, SDKPath, FALSE)

\* the prebuilt candidate for the module
PrebuiltPath == PathAppend(PrebuiltCacheDir, ModuleFilename)

\* the three paths for each directory, computed once
PathsOfDir ==
    [d \in Dirs |-> [mod |-> ModPathOf(d), in |-> InPathOf(d), cache |-> CachePathOf(d)]]

ModPath == PathsOfDir[dir].mod
InPath == PathsOfDir[dir].in
CachePath == PathsOfDir[dir].cache

FsPaths(d) == {InPathOf(d), ModPathOf(d), DepA, CachePathOf(d), PrebuiltPath}

TextBody == [kind |-> "text"]

\* the interfaces a load can meet: a well-formed one, one of another major
\* version, one whose flags name another module, one without its headers
Interfaces ==
    {InterfaceBody(TRUE, <<1, 0>>, TRUE, ModuleName, <<DepA>>),
     InterfaceBody(TRUE, <<2, 0>>, TRUE, ModuleName, <<DepA>>),
     InterfaceBody(TRUE, <<1, 0>>, TRUE, <<"G">>, <<DepA>>),
     InterfaceBody(FALSE, <<1, 0>>, TRUE, ModuleName, <<DepA>>)}

\* a load: what discovery found, what the load did and what it returned
NoLoad ==
    [kind |-> "none", path |-> <<>>, buf |-> NoFile, deps |-> <<>>, opens |-> <<>>,
     tracked |-> {}, quiet |-> FALSE, ret |-> "none", retBuf |-> NoFile,
     builds |-> 0, why |-> "", wrote |-> {}, docLoads |-> 0]

\* what is kept of a load once the next one starts
Summary(l) ==
    [kind |-> l.kind, path |-> l.path, ret |-> l.ret, builds |-> l.builds,
     wrote |-> l.wrote]

\* the loader is pointed into the SDK, at a well-formed interface
InitFiles ==
    [p \in FsPaths(SDKPath) |->
        IF p = InPathOf(SDKPath)
        THEN MkFile(1, 1, 1, InterfaceBody(TRUE, <<1, 0>>, TRUE, ModuleName, <<DepA>>))
        ELSE IF p = DepA THEN MkFile(1, 1, 1, TextBody)
        ELSE NoFile]

Init ==
    /\ dir = SDKPath
    /\ loadMode \in LoadModes
    /\ fs = InitFiles
    /\ pc = "idle"
    /\ cur = NoLoad
    /\ prev = Summary(NoLoad)
    /\ dirty = FALSE
    /\ nLoads = 0
    /\ nEnv = 0

\* findModuleFilesInDirectory had it not looked for the interface file
interfaceAssumed(f, interfacePath) == TRUE

\* findModuleFilesInDirectory: fs.exists(InPath)
interfaceExists(f, interfacePath) == StatOK(f, interfacePath)

\* findModuleFilesInDirectory when the interface file does not exist
LoadNoInterface ==
    /\ pc = "idle"
    /\ nLoads < MaxLoads
    /\ ~interfaceExists(fs, InPath)
    /\ cur' = [NoLoad EXCEPT !.ret = "NotFound", !.quiet = ~dirty]
    /\ prev' = Summary(cur)
    /\ dirty' = FALSE
    /\ nLoads' = nLoads + 1
    /\ UNCHANGED <<fs, loadMode, dir, pc, nEnv>>

\* findModuleFilesInDirectory up to the return of discovery
LoadDiscover ==
    /\ pc = "idle"
    /\ nLoads < MaxLoads
    /\ interfaceExists(fs, InPath)
    /\ LET d == discoverUpToDateModuleForInterface(fs, loadMode, SDKPath, InPath,
                    ModPath, CachePath, PrebuiltCacheDir, ModuleName)
       IN  cur' = [NoLoad EXCEPT !.kind = d.kind, !.path = d.path, !.buf = d.buf,
                                 !.deps = d.deps, !.opens = d.opens,
                                 !.tracked = d.tracked, !.quiet = ~dirty]
    /\ prev' = Summary(cur)
    /\ pc' = "discovered"
    /\ dirty' = FALSE
    /\ nLoads' = nLoads + 1
    /\ UNCHANGED <<fs, loadMode, dir, nEnv>>

\* SerializedModuleLoaderBase::openModuleDocFile: no documentation file lies
\* beside the interface, which is no error
DocResult == "ok"

\* findOrBuildLoadableModule: an error of discovery other than NotFound is
\* returned as it is
ReturnError ==
    /\ pc = "discovered"
    /\ cur.kind = "NotSupported"
    /\ cur' = [cur EXCEPT !.ret = "NotSupported"]
    /\ pc' = "idle"
    /\ UNCHANGED <<fs, loadMode, dir, prev, dirty, nLoads, nEnv>>

\* the load had it written the entry it found in the user cache anew
ReturnDiscoveredRefreshing ==
    /\ pc = "discovered"
    /\ cur.kind \in {"Normal", "Forwarded"}
    /\ cur' = [cur EXCEPT !.ret = DocResult, !.retBuf = cur.buf, !.docLoads = 1]
    /\ fs' = [fs EXCEPT ![CachePath].mtime = @ + 1]
    /\ pc' = "idle"
    /\ UNCHANGED <<loadMode, dir, prev, dirty, nLoads, nEnv>>

\* findOrBuildLoadableModule: a module found in the user cache is returned
ReturnDiscovered ==
    /\ pc = "discovered"
    /\ cur.kind \in {"Normal", "Forwarded"}
    /\ cur' = [cur EXCEPT !.ret = DocResult, !.retBuf = cur.buf, !.docLoads = 1]
    /\ pc' = "idle"
    /\ UNCHANGED <<fs, loadMode, dir, prev, dirty, nLoads, nEnv>>

\* the prebuilt branch had it ignored the result of writeForwardingModule
prebuiltLoadResultIgnoringWrite(writeFailed) == DocResult

\* findOrBuildLoadableModule, the prebuilt branch: a forwarding module that
\* cannot be written defers the load
prebuiltLoadResult(writeFailed) == IF writeFailed THEN "NotSupported" ELSE DocResult

\* the load had it written the forwarding module to a file of its own beside
\* the cache entry
ReturnPrebuiltSidecar ==
    /\ pc = "discovered"
    /\ cur.kind = "Prebuilt"
    /\ \E writeFails \in BOOLEAN, garbage \in StatValues :
          LET fwd == assembleForwardingModule(fs, cur.path, cur.deps, garbage)
          IN  IF writeFails
              THEN /\ cur' = [cur EXCEPT !.ret = prebuiltLoadResult(TRUE)]
                   /\ fs' = fs
              ELSE /\ cur' = [cur EXCEPT !.ret = prebuiltLoadResult(FALSE),
                                         !.retBuf = cur.buf, !.docLoads = 1,
                                         !.wrote = {CachePath}]
                   /\ fs' = [p \in DOMAIN fs \cup {CachePath \o <<".", "f">>} |->
                                IF p = CachePath \o <<".", "f">>
                                THEN ForwardingFile(NoFile, fwd)
                                ELSE fs[p]]
    /\ pc' = "idle"
    /\ UNCHANGED <<loadMode, dir, prev, dirty, nLoads, nEnv>>

\* findOrBuildLoadableModule: a prebuilt module gets a forwarding module
\* written to the user cache, then is returned
ReturnPrebuilt ==
    /\ pc = "discovered"
    /\ cur.kind = "Prebuilt"
    /\ \E writeFails \in BOOLEAN, garbage \in StatValues :
          LET fwd == assembleForwardingModule(fs, cur.path, cur.deps, garbage)
          IN  IF writeFails
              THEN /\ cur' = [cur EXCEPT !.ret = prebuiltLoadResult(TRUE)]
                   /\ fs' = fs
              ELSE /\ cur' = [cur EXCEPT !.ret = prebuiltLoadResult(FALSE),
                                         !.retBuf = cur.buf, !.docLoads = 1,
                                         !.wrote = {CachePath}]
                   /\ fs' = [fs EXCEPT ![CachePath] = ForwardingFile(@, fwd)]
    /\ pc' = "idle"
    /\ UNCHANGED <<loadMode, dir, prev, dirty, nLoads, nEnv>>

\* findOrBuildLoadableModule: nothing was found, the module is built
BuildOnMiss ==
    /\ pc = "discovered"
    /\ cur.kind = "NotFound"
    /\ \E stage \in BuildStages :
          LET b == buildSwiftModule(fs, InPath, ModuleName, SDKPath, CacheDir,
                                    PrebuiltCacheDir, CachePath, TRUE, FALSE, stage)
          IN  /\ fs' = b.fs
              /\ cur' = [cur EXCEPT
                    !.ret = IF b.failed THEN "InvalidArgument" ELSE DocResult,
                    !.retBuf = IF b.failed THEN NoFile ELSE b.buf,
                    !.builds = 1,
                    !.why = b.why,
                    !.wrote = IF b.fs # fs THEN {CachePath} ELSE {},
                    !.tracked = @ \cup b.tracked,
                    !.docLoads = IF b.failed THEN 0 ELSE 1]
    /\ pc' = "idle"
    /\ UNCHANGED <<loadMode, dir, prev, dirty, nLoads, nEnv>>

(* Other processes changing files *)

EnvCan ==
    /\ pc = "idle"
    /\ nLoads < MaxLoads
    /\ nEnv < MaxEnv

EnvStep(f) ==
    /\ fs' = f
    /\ nEnv' = nEnv + 1
    /\ dirty' = TRUE
    /\ UNCHANGED <<loadMode, dir, pc, cur, prev, nLoads>>

\* buildSwiftModuleFromSwiftInterface: the tool entry that fills the prebuilt
\* cache, or leaves a binary beside the interface
ToolBuild ==
    /\ EnvCan
    /\ \E OutPath \in {PrebuiltPath, ModPath}, hashes \in BOOLEAN, stage \in BuildStages :
          LET b == buildSwiftModule(fs, InPath, ModuleName, SDKPath, CacheDir,
                                    PrebuiltCacheDir, OutPath, TRUE, hashes, stage)
          IN  /\ b.fs # fs
              /\ EnvStep(b.fs)

\* the files whose size, mtime or contents a dependency record can name
Sources == {DepA, InPath, PrebuiltPath}

\* the binary modules a load can open
Modules == {CachePath, PrebuiltPath, ModPath}

\* touch: a new mtime, same contents
Touch ==
    /\ EnvCan
    /\ \E p \in Sources :
           /\ fs[p].exists
           /\ EnvStep([fs EXCEPT ![p].mtime = @ + 1])

\* same size and mtime, other contents
Rewrite ==
    /\ EnvCan
    /\ \E p \in {DepA} :
           /\ fs[p].exists
           /\ EnvStep([fs EXCEPT ![p].bytes = @ + 1])

\* other contents of another size
Resize ==
    /\ EnvCan
    /\ \E p \in {DepA} :
           /\ fs[p].exists
           /\ EnvStep([fs EXCEPT ![p].size = @ + 1, ![p].bytes = @ + 1, ![p].mtime = @ + 1])

Remove ==
    /\ EnvCan
    /\ \E p \in DOMAIN fs :
           /\ fs[p].exists
           /\ EnvStep([fs EXCEPT ![p] = NoFile])

\* the file stays but can no longer be read
Protect ==
    /\ EnvCan
    /\ \E p \in {ModPath, DepA} :
           /\ fs[p].exists
           /\ fs[p].readable
           /\ EnvStep([fs EXCEPT ![p].readable = FALSE])

\* what a damaged or foreign module file can hold: a serialized AST that does
\* not validate and, in the user cache, bytes that are no module at all or a
\* forwarding module of another version
DamagedBodies(p, body) ==
    {ASTBody(FALSE, <<>>)}
        \cup (IF p = CachePath THEN {JunkBody} ELSE {})
        \cup (IF body.kind = "yaml"
              THEN {YamlBody([body.doc EXCEPT ![3] = <<"version", 2>>])}
              ELSE {})

Damage ==
    /\ EnvCan
    /\ \E p \in Modules :
           /\ fs[p].exists
           /\ \E b \in DamagedBodies(p, fs[p].body) :
                 /\ b # fs[p].body
                 /\ EnvStep([fs EXCEPT ![p].body = b, ![p].bytes = @ + 1])

Next ==
    \/ LoadNoInterface
    \/ LoadDiscover
    \/ ReturnError
    \/ ReturnDiscovered
    \/ ReturnPrebuilt
    \/ BuildOnMiss
    \/ ToolBuild
    \/ Touch
    \/ Rewrite
    \/ Resize
    \/ Remove
    \/ Protect
    \/ Damage

Spec == Init /\ [][Next]_vars

-----------------------------------------------------------------------------
(* What the claims speak of, stated on the files alone *)

\* the file a record names has the recorded size and the recorded mtime or
\* content hash
RecordMatches(f, d) ==
    /\ Status(f, ResolvedPath(d)).exists
    /\ Status(f, ResolvedPath(d)).size = d.size
    /\ IF d.hashBased
       THEN /\ Status(f, ResolvedPath(d)).readable
            /\ xxHash64(Status(f, ResolvedPath(d)).bytes) = d.value
       ELSE Status(f, ResolvedPath(d)).mtime = d.value

AllMatch(f, deps) == \A i \in DOMAIN deps : RecordMatches(f, deps[i])

\* the file at path is a readable, valid serialized module
ValidModuleAt(f, path) ==
    /\ CanOpen(f, path)
    /\ f[path].body.kind = "ast"
    /\ f[path].body.valid

\* the file at path is a valid serialized module all of whose own dependency
\* records match the files
ModuleUpToDate(f, path) ==
    /\ ValidModuleAt(f, path)
    /\ AllMatch(f, f[path].body.deps)

\* the file at path is a version-1 forwarding module to a valid module, and
\* its own dependency list matches the files
ForwardingUpToDate(f, path) ==
    /\ CanOpen(f, path)
    /\ f[path].body.kind = "yaml"
    /\ ForwardingModuleLoad(f[path].body).result = "ok"
    /\ ValidModuleAt(f, ForwardingModuleLoad(f[path].body).fwd.underlyingModulePath)
    /\ \A d \in {ForwardingModuleLoad(f[path].body).fwd.dependencies[i] :
                   i \in DOMAIN ForwardingModuleLoad(f[path].body).fwd.dependencies} :
          /\ Status(f, d.path).exists
          /\ Status(f, d.path).size = d.size
          /\ Status(f, d.path).mtime = d.lastModificationTime

UserCacheUpToDate == ModuleUpToDate(fs, CachePath) \/ ForwardingUpToDate(fs, CachePath)

PrebuiltUpToDate == HasPathPrefix(InPath, SDKPath) /\ ModuleUpToDate(fs, PrebuiltPath)

AdjacentUpToDate == ModuleUpToDate(fs, ModPath)

\* how often path occurs in the sequence s
Count(s, path) == Cardinality({i \in DOMAIN s : s[i] = path})

\* every dependency list the files and the load in progress hold
DepLists ==
    {cur.deps}
        \cup {fs[p].body.deps : p \in {q \in Modules : fs[q].exists /\ fs[q].body.kind = "ast"}}
        \cup {FwdRecords(ForwardingModuleLoad(fs[p].body).fwd) :
                p \in {q \in Modules : fs[q].exists /\ fs[q].body.kind = "yaml"}}

-----------------------------------------------------------------------------
(* Claims *)

\* C1: in PreferBinary mode discovery returns the first up-to-date candidate
\* in the order user cache, prebuilt cache, adjacent binary: Normal/Forwarded
\* whenever the user-cache entry is up to date, Prebuilt when it is not and
\* the prebuilt module is, and the deferral to the adjacent binary only when
\* neither cache holds an up-to-date module.
C1_DiscoveryPrecedence ==
    (pc = "discovered" /\ loadMode = "PreferSerialized") =>
        /\ UserCacheUpToDate => cur.kind \in {"Normal", "Forwarded"}
        /\ cur.kind = "Prebuilt" => ~UserCacheUpToDate
        /\ (~UserCacheUpToDate /\ PrebuiltUpToDate) => cur.kind = "Prebuilt"
        /\ cur.kind = "NotSupported" => (~UserCacheUpToDate /\ ~PrebuiltUpToDate)

NoCandidates ==
    /\ ~fs[CachePath].exists
    /\ ~fs[PrebuiltPath].exists
    /\ ~fs[ModPath].exists

\* C3: with an empty user cache, no prebuilt module and no adjacent binary, a
\* PreferBinary load's discovery returns NotFound; a successful build leaves
\* a serialized module at the cache path; and if no file changes, the next
\* load's discovery returns Normal for that path and nothing is built.
C3_ColdBuildThenHit ==
    /\ (pc = "discovered" /\ loadMode = "PreferSerialized" /\ NoCandidates)
           => cur.kind = "NotFound"
    /\ (pc = "idle" /\ ~dirty /\ cur.kind = "NotFound" /\ cur.ret = "ok")
           => /\ cur.builds = 1
              /\ cur.wrote = {CachePath}
              /\ ValidModuleAt(fs, CachePath)
              /\ cur.retBuf = fs[CachePath]
    /\ (loadMode = "PreferSerialized" /\ nLoads >= 2 /\ cur.quiet
            /\ prev.kind = "NotFound" /\ prev.ret = "ok")
           => /\ cur.kind = "Normal"
              /\ cur.path = CachePath
              /\ cur.builds = 0

\* C3 witness: from the untouched initial files, a first load built the
\* module and the second load returned it from the user cache.
C3_Witness ==
    /\ pc = "idle"
    /\ loadMode = "PreferSerialized"
    /\ nLoads = 2
    /\ nEnv = 0
    /\ prev.kind = "NotFound"
    /\ prev.ret = "ok"
    /\ cur.kind = "Normal"
    /\ cur.ret = "ok"
    /\ cur.builds = 0

\* the user-cache entry is a valid module one of whose mtime records names a
\* file of the recorded size and another mtime
StaleByMtime(f) ==
    /\ ValidModuleAt(f, CachePath)
    /\ \E i \in DOMAIN f[CachePath].body.deps :
          /\ ~f[CachePath].body.deps[i].hashBased
          /\ Status(f, ResolvedPath(f[CachePath].body.deps[i])).exists
          /\ Status(f, ResolvedPath(f[CachePath].body.deps[i])).size
                 = f[CachePath].body.deps[i].size
          /\ Status(f, ResolvedPath(f[CachePath].body.deps[i])).mtime
                 # f[CachePath].body.deps[i].value

\* C4: when the mtime of a dependency recorded in the cache entry has changed
\* and its size has not, discovery does not return Normal; with no prebuilt
\* module and no adjacent binary it returns NotFound, the builder runs, and a
\* successful build replaces the entry at the same cache path by one whose
\* records match the files.
C4_StaleByMtimeRebuilds ==
    [][/\ (pc' = "discovered" /\ StaleByMtime(fs'))
              => /\ cur'.kind # "Normal"
                 /\ (loadMode = "PreferSerialized" /\ ~fs'[PrebuiltPath].exists
                         /\ ~fs'[ModPath].exists) => cur'.kind = "NotFound"
       /\ (pc = "discovered" /\ StaleByMtime(fs) /\ cur.kind = "NotFound")
              => /\ cur'.builds = 1
                 /\ cur'.ret = "ok"
                        => /\ cur'.wrote = {CachePath}
                           /\ fs'[CachePath] # fs[CachePath]
                           /\ ModuleUpToDate(fs', CachePath)
      ]_vars

\* C4 witness: a load found the entry stale by mtime, with nothing else to
\* fall back on, and rebuilt it.
C4_Witness ==
    /\ pc = "idle"
    /\ ~dirty
    /\ loadMode = "PreferSerialized"
    /\ nLoads = 2
    /\ prev.kind = "NotFound"
    /\ prev.ret = "ok"
    /\ ~cur.quiet
    /\ cur.kind = "NotFound"
    /\ cur.ret = "ok"
    /\ cur.wrote = {CachePath}
    /\ ~fs[PrebuiltPath].exists
    /\ ~fs[ModPath].exists
    /\ \E i \in DOMAIN cur.deps :
          /\ Status(fs, ResolvedPath(cur.deps[i])).size = cur.deps[i].size
          /\ Status(fs, ResolvedPath(cur.deps[i])).mtime # cur.deps[i].value

\* the user-cache entry is a version-1 forwarding module to path
ForwardsTo(f, path) ==
    /\ CanOpen(f, CachePath)
    /\ f[CachePath].body.kind = "yaml"
    /\ ForwardingModuleLoad(f[CachePath].body).result = "ok"
    /\ ForwardingModuleLoad(f[CachePath].body).fwd.version = 1
    /\ ForwardingModuleLoad(f[CachePath].body).fwd.underlyingModulePath = path

\* C5: when the user cache has no up-to-date entry and the prebuilt module is
\* valid with up-to-date dependencies for an interface under the SDK, the
\* load finds Prebuilt, returns the prebuilt buffer and writes a version-1
\* forwarding module to it at the cache path; if no file changes, the next
\* load's discovery returns Forwarded with that underlying path.
C5_PrebuiltHitForwards ==
    /\ (pc = "discovered" /\ loadMode = "PreferSerialized" /\ ~UserCacheUpToDate
            /\ PrebuiltUpToDate)
           => cur.kind = "Prebuilt"
    /\ (pc = "idle" /\ ~dirty /\ cur.kind = "Prebuilt" /\ cur.ret = "ok")
           => /\ cur.retBuf = fs[PrebuiltPath]
              /\ ForwardsTo(fs, PrebuiltPath)
    /\ (loadMode = "PreferSerialized" /\ nLoads >= 2 /\ cur.quiet
            /\ prev.kind = "Prebuilt" /\ prev.ret = "ok")
           => /\ cur.kind = "Forwarded"
              /\ cur.path = prev.path

\* C6: in a load whose discovery returns Forwarded the underlying prebuilt
\* module is opened exactly once; checking the forwarding module's
\* dependency list opens nothing.
C6_ForwardedOpensOnce ==
    cur.kind = "Forwarded" =>
        /\ Count(cur.opens, cur.path) = 1
        /\ cur.opens = <<CachePath, cur.path>>

\* C6 witness: a load has returned the prebuilt module through a forwarding
\* module whose dependency list names the prebuilt module itself.
C6_Witness ==
    /\ pc = "idle"
    /\ cur.kind = "Forwarded"
    /\ cur.ret = "ok"
    /\ cur.path = PrebuiltPath
    /\ \E i \in DOMAIN cur.deps : cur.deps[i].path = PrebuiltPath

\* C7: in PreferBinary mode, when neither cache holds an up-to-date module
\* and an up-to-date adjacent binary exists, discovery fails with
\* NotSupported; the load returns that error, builds nothing and writes
\* nothing.
C7_AdjacentDefers ==
    /\ (pc = "discovered" /\ loadMode = "PreferSerialized" /\ ~UserCacheUpToDate
            /\ ~PrebuiltUpToDate /\ AdjacentUpToDate)
           => cur.kind = "NotSupported"
    /\ (pc = "idle" /\ cur.kind = "NotSupported")
           => /\ cur.ret = "NotSupported"
              /\ cur.builds = 0
              /\ cur.wrote = {}

\* C8 as claimed: in PreferBinary mode, when neither cache holds an up-to-date
\* module and an adjacent binary exists but is unreadable or stale (fails
\* validation or the freshness check), discovery still returns NotSupported.
C8_StaleAdjacentDefers ==
    (pc = "discovered" /\ loadMode = "PreferSerialized" /\ ~UserCacheUpToDate
        /\ ~PrebuiltUpToDate /\ fs[ModPath].exists /\ ~AdjacentUpToDate)
       => cur.kind = "NotSupported"

\* C8 as amended: in PreferBinary mode, when neither cache holds an up-to-date
\* module, an adjacent binary that exists but cannot be read makes discovery
\* return NotSupported and nothing is built; one that can be read but fails
\* validation or the freshness check makes discovery return NotFound, so the
\* module is built from the interface.
C8_UnreadableAdjacentDefers ==
    /\ (pc = "discovered" /\ loadMode = "PreferSerialized" /\ ~UserCacheUpToDate
            /\ ~PrebuiltUpToDate /\ fs[ModPath].exists)
           => /\ ~fs[ModPath].readable => cur.kind = "NotSupported"
              /\ (fs[ModPath].readable /\ ~AdjacentUpToDate) => cur.kind = "NotFound"
    /\ (pc = "idle" /\ cur.kind = "NotSupported")
           => /\ cur.ret = "NotSupported"
              /\ cur.builds = 0
    /\ (pc = "idle" /\ cur.kind = "NotFound") => cur.builds = 1

\* C8 witness: the adjacent binary cannot be read and the load has deferred.
C8_Witness ==
    /\ pc = "idle"
    /\ ~dirty
    /\ loadMode = "PreferSerialized"
    /\ fs[ModPath].exists
    /\ ~fs[ModPath].readable
    /\ cur.kind = "NotSupported"
    /\ cur.ret = "NotSupported"

\* C9: when the interface file does not exist the load returns NotFound and
\* has opened no file, run neither the builder nor the doc loader, and
\* written nothing.
C9_NoInterfaceNoWork ==
    (pc = "idle" /\ nLoads > 0 /\ ~dirty /\ ~fs[InPath].exists)
       => /\ cur.ret = "NotFound"
          /\ cur.kind = "none"
          /\ cur.opens = <<>>
          /\ cur.builds = 0
          /\ cur.docLoads = 0
          /\ cur.wrote = {}

\* C9 witness: a load ran with the interface gone while a module it could
\* have returned was lying in a cache or beside the interface.
C9_Witness ==
    /\ pc = "idle"
    /\ nLoads > 0
    /\ ~dirty
    /\ ~fs[InPath].exists
    /\ \E p \in Modules : fs[p].exists
    /\ cur.ret = "NotFound"

\* C10: in OnlyParseable mode discovery returns NotFound without opening
\* any file, so every load of an existing interface runs the builder, even
\* with an up-to-date module in the user cache, in the prebuilt cache or
\* beside the interface.
C10_OnlyInterfaceAlwaysBuilds ==
    loadMode = "OnlyParseable" =>
        /\ pc = "discovered" => (cur.kind = "NotFound" /\ cur.opens = <<>>)
        /\ (pc = "idle" /\ cur.kind # "none") => (cur.builds = 1 /\ cur.opens = <<>>)

\* C10 witness: the second load builds again although the entry the first
\* one wrote is up to date.
C10_Witness ==
    /\ loadMode = "OnlyParseable"
    /\ pc = "idle"
    /\ ~dirty
    /\ nLoads = 2
    /\ cur.quiet
    /\ prev.ret = "ok"
    /\ cur.builds = 1
    /\ cur.ret = "ok"

\* C11: in PreferParseable mode discovery never opens the adjacent binary and
\* never returns NotSupported; it returns what a PreferSerialized discovery
\* finds in the user cache or the prebuilt cache, and NotFound when both
\* miss, an up-to-date adjacent binary notwithstanding.
C11_PreferInterfaceSkipsAdjacent ==
    (pc = "discovered" /\ loadMode = "PreferParseable") =>
        /\ Count(cur.opens, ModPath) = 0
        /\ cur.kind \in {"Normal", "Forwarded", "Prebuilt", "NotFound"}
        /\ UserCacheUpToDate => cur.kind \in {"Normal", "Forwarded"}
        /\ (~UserCacheUpToDate /\ ~PrebuiltUpToDate) => cur.kind = "NotFound"
        /\ LET b == discoverUpToDateModuleForInterface(fs, "PreferSerialized", SDKPath,
                        InPath, ModPath, CachePath, PrebuiltCacheDir, ModuleName)
           IN  IF b.kind \in {"Normal", "Forwarded", "Prebuilt"}
               THEN cur.kind = b.kind /\ cur.path = b.path /\ cur.buf = b.buf
               ELSE cur.kind = "NotFound"

\* C11 witness: both caches miss, an up-to-date binary lies beside the
\* interface, and discovery has returned NotFound.
C11_Witness ==
    /\ pc = "discovered"
    /\ loadMode = "PreferParseable"
    /\ AdjacentUpToDate
    /\ cur.kind = "NotFound"

\* C12: when discovery returns NotFound the builder runs once, writing
\* nowhere but at the cache path; a build that fails at any stage, a crash of
\* the sub-compilation included, makes the load return InvalidArgument with
\* no buffer, and a build that succeeds makes it return the module built.
C12_BuildOnMiss ==
    /\ (pc = "discovered" /\ cur.kind = "NotFound")
           => \A stage \in BuildStages \ {"ok"} :
                 buildSwiftModule(fs, InPath, ModuleName, SDKPath, CacheDir,
                     PrebuiltCacheDir, CachePath, TRUE, FALSE, stage).failed
    /\ (pc = "idle" /\ cur.kind = "NotFound")
           => /\ cur.builds = 1
              /\ cur.wrote \subseteq {CachePath}
              /\ cur.why # "ok" => (cur.ret = "InvalidArgument" /\ cur.retBuf = NoFile)
              /\ cur.why = "ok"
                     => /\ cur.ret = "ok"
                        /\ cur.wrote = {CachePath}
                        /\ cur.retBuf.body.kind = "ast"
                        /\ cur.retBuf.body.valid
                        /\ ~dirty => cur.retBuf = fs[CachePath]

\* C12 witness: a build failed after the module had been written, the load
\* returned InvalidArgument, and the loader went on to serve another load.
C12_Witness ==
    /\ pc = "idle"
    /\ nLoads = 2
    /\ prev.kind = "NotFound"
    /\ prev.ret = "InvalidArgument"
    /\ prev.wrote = {CachePath}
    /\ cur.ret = "ok"

\* C13: when discovery returns Prebuilt and the forwarding module cannot be
\* written, the load returns NotSupported and no buffer, and builds nothing.
C13_ForwardingWriteFailureDefers ==
    (pc = "idle" /\ cur.kind = "Prebuilt") =>
        /\ cur.builds = 0
        /\ cur.wrote = {} => (cur.ret = "NotSupported" /\ cur.retBuf = NoFile)
        /\ cur.ret = "ok" => (cur.wrote = {CachePath} /\ cur.retBuf = cur.buf)

\* C13 witness: a prebuilt module was found, the write failed, the load
\* deferred.
C13_Witness ==
    /\ pc = "idle"
    /\ ~dirty
    /\ cur.kind = "Prebuilt"
    /\ cur.wrote = {}
    /\ cur.ret = "NotSupported"
    /\ PrebuiltUpToDate

\* C20: when the cache path holds a version-1 forwarding module whose own
\* records match the files in size and time and whose underlying file is a
\* valid serialized module, discovery returns Forwarded with the underlying
\* path, whether or not the records embedded in the underlying module match
\* the files.
C20_ForwardingOwnListDecides ==
    (pc = "discovered" /\ loadMode # "OnlyParseable" /\ ForwardingUpToDate(fs, CachePath))
       => /\ cur.kind = "Forwarded"
          /\ cur.path = ForwardingModuleLoad(fs[CachePath].body).fwd.underlyingModulePath

\* C20 witness: discovery has returned Forwarded although a record embedded
\* in the underlying module no longer matches its file.
C20_Witness ==
    /\ pc = "discovered"
    /\ cur.kind = "Forwarded"
    /\ ForwardingUpToDate(fs, CachePath)
    /\ ~AllMatch(fs, fs[cur.path].body.deps)

\* C22: a user-cache or prebuilt candidate that cannot be used (it cannot be
\* opened, does not validate, is a forwarding module that does not load or
\* forwards to an invalid module, or has a stale dependency) is no error:
\* discovery goes on to the prebuilt candidate and, in PreferBinary mode, to
\* the adjacent binary, and NotSupported comes from the adjacent probe alone.
C22_CacheFailuresFallThrough ==
    (pc = "discovered" /\ loadMode # "OnlyParseable") =>
        /\ ~UserCacheUpToDate
              => /\ cur.kind \notin {"Normal", "Forwarded"}
                 /\ Count(cur.opens, PrebuiltPath) >= 1
        /\ (~UserCacheUpToDate /\ cur.kind # "Prebuilt" /\ loadMode = "PreferSerialized")
              => /\ Count(cur.opens, ModPath) >= 1
                 /\ cur.kind \in {"NotFound", "NotSupported"}
        /\ (~UserCacheUpToDate /\ cur.kind # "Prebuilt" /\ loadMode = "PreferParseable")
              => cur.kind = "NotFound"
        /\ cur.kind = "NotSupported"
              => /\ loadMode = "PreferSerialized"
                 /\ Status(fs, ModPath).exists
                 /\ Status(fs, ModPath).readable => ValidModuleAt(fs, ModPath)

\* C22 witness: the cache path holds a forwarding module that is of no use,
\* the prebuilt module is there and of no use either, and discovery has gone
\* through to the adjacent binary and found nothing.
C22_Witness ==
    /\ pc = "discovered"
    /\ loadMode = "PreferSerialized"
    /\ CanOpen(fs, CachePath)
    /\ fs[CachePath].body.kind = "yaml"
    /\ CanOpen(fs, PrebuiltPath)
    /\ cur.kind = "NotFound"
    /\ Count(cur.opens, ModPath) = 1

\* every file but the one at the cache path is left as it was
OnlyCachePathWritten ==
    /\ DOMAIN fs' = DOMAIN fs
    /\ \A p \in DOMAIN fs \ {CachePath} : fs'[p] = fs[p]

\* C25: discovery writes nothing; a load whose discovery returned Normal,
\* Forwarded or NotSupported, or that found no interface, writes nothing; a
\* load whose discovery returned Prebuilt writes at most a forwarding module
\* at the cache path, and one whose discovery returned NotFound at most a
\* serialized module there.
C25_WriteFrame ==
    [][/\ pc' = "discovered" => fs' = fs
       /\ (pc = "idle" /\ pc' = "idle" /\ nLoads' # nLoads) => fs' = fs
       /\ (pc = "discovered" /\ cur.kind \in {"Normal", "Forwarded", "NotSupported"})
              => fs' = fs
       /\ (pc = "discovered" /\ cur.kind = "Prebuilt")
              => /\ OnlyCachePathWritten
                 /\ fs'[CachePath] # fs[CachePath] => fs'[CachePath].body.kind = "yaml"
       /\ (pc = "discovered" /\ cur.kind = "NotFound")
              => /\ OnlyCachePathWritten
                 /\ fs'[CachePath] # fs[CachePath] => fs'[CachePath].body.kind = "ast"
      ]_vars

\* C25 witness: a load that found Prebuilt has written the forwarding module
\* and the load after it, finding Forwarded, has returned with the user
\* cache as that load left it.
C25_Witness ==
    /\ pc = "idle"
    /\ prev.kind = "Prebuilt"
    /\ prev.wrote = {CachePath}
    /\ cur.kind = "Forwarded"
    /\ cur.ret = "ok"
    /\ ForwardsTo(fs, PrebuiltPath)

\* C26: the only file there ever is in the user cache is the one at the
\* computed cache path, and when a load has just written it, it holds
\* either a valid serialized module (after a build) or a version-1
\* forwarding module to the prebuilt candidate (after a prebuilt hit),
\* whatever the path held before.
C26_SingleSlot ==
    /\ \A p \in DOMAIN fs :
          (StartsWith(p, CacheDir) /\ fs[p].exists)
             => p = computeCachedOutputPath(CacheDir, ModuleName, SwiftFullVersion,
                                            InPath, ArchName, SDKPath, FALSE)
    /\ (pc = "idle" /\ ~dirty /\ cur.wrote # {})
           => /\ cur.wrote = {CachePath}
              /\ cur.kind = "NotFound" => ValidModuleAt(fs, CachePath)
              /\ cur.kind = "Prebuilt"
                    => /\ ForwardsTo(fs, PrebuiltPath)
                       /\ PrebuiltPath = computePrebuiltModulePath(SDKPath, InPath, ModPath,
                                              PrebuiltCacheDir, ModuleName).path
              /\ cur.kind \in {"NotFound", "Prebuilt"}

\* C26 witness: a load wrote a forwarding module, and the load after it has
\* built the module and written it over the forwarding module.
C26_Witness ==
    /\ pc = "idle"
    /\ ~dirty
    /\ prev.kind = "Prebuilt"
    /\ prev.wrote = {CachePath}
    /\ cur.kind = "NotFound"
    /\ cur.wrote = {CachePath}
    /\ fs[CachePath].body.kind = "ast"

\* the paths a forwarding module's dependency list names, in order
FwdPaths(fwd) == [i \in DOMAIN fwd.dependencies |-> fwd.dependencies[i].path]

\* C27: when discovery returns Prebuilt the dependency vector holds the
\* records embedded in the prebuilt module and no other, and the forwarding
\* module then written lists the prebuilt module's path followed by the
\* resolved paths of those records, also when a user-cache entry was
\* examined and found of no use earlier in the same discovery.
C27_ForwardingListIsPrebuiltOwn ==
    /\ (pc = "discovered" /\ cur.kind = "Prebuilt")
           => cur.deps = fs[PrebuiltPath].body.deps
    /\ (pc = "idle" /\ ~dirty /\ cur.kind = "Prebuilt" /\ cur.wrote = {CachePath})
           => FwdPaths(ForwardingModuleLoad(fs[CachePath].body).fwd)
                 = <<PrebuiltPath>>
                      \o [i \in DOMAIN fs[PrebuiltPath].body.deps |->
                             ResolvedPath(fs[PrebuiltPath].body.deps[i])]

\* C27 witness: the load before wrote the user-cache entry, this load's
\* discovery examined it first, returned Prebuilt all the same, and the
\* forwarding module has been written over it.
C27_Witness ==
    /\ pc = "idle"
    /\ ~dirty
    /\ prev.wrote = {CachePath}
    /\ cur.kind = "Prebuilt"
    /\ cur.opens[1] = CachePath
    /\ cur.wrote = {CachePath}
    /\ ForwardsTo(fs, PrebuiltPath)

\* C28: when discovery returns Prebuilt and no file changes before the
\* forwarding module is written, every path writeForwardingModule stats (the
\* prebuilt module, then each dependency of the vector) names a file that
\* exists, and the sizes and times the forwarding module records are those
\* of the files.
C28_ForwardingStatsSucceed ==
    /\ (pc = "discovered" /\ cur.kind = "Prebuilt")
           => \A i \in DOMAIN ForwardedPaths(cur.path, cur.deps) :
                 Status(fs, ForwardedPaths(cur.path, cur.deps)[i]).exists
    /\ (pc = "idle" /\ ~dirty /\ cur.kind = "Prebuilt" /\ cur.wrote = {CachePath})
           => ForwardingUpToDate(fs, CachePath)

\* C28 witness: discovery has returned Prebuilt after examining a user-cache
\* entry that is there but of no use, and the vector names several files.
C28_Witness ==
    /\ pc = "discovered"
    /\ cur.kind = "Prebuilt"
    /\ CanOpen(fs, CachePath)
    /\ Len(cur.deps) >= 2

\* the record the forwarding module at the cache path holds for path does
\* not match the file: it is gone, or its size or mtime is another
FwdRecordBroken(f, path) ==
    \E i \in DOMAIN ForwardingModuleLoad(f[CachePath].body).fwd.dependencies :
       LET d == ForwardingModuleLoad(f[CachePath].body).fwd.dependencies[i]
       IN  /\ d.path = path
           /\ \/ ~Status(f, path).exists
              \/ Status(f, path).size # d.size
              \/ Status(f, path).mtime # d.lastModificationTime

\* C29: the forwarding module a load writes has as its first dependency the
\* prebuilt module, with the size and mtime the file has then; and when the
\* prebuilt module has since been removed or changed in size or mtime, the
\* next discovery does not return Forwarded.
C29_PrebuiltIsOwnDependency ==
    /\ (pc = "idle" /\ ~dirty /\ cur.kind = "Prebuilt" /\ cur.wrote = {CachePath})
           => ForwardingModuleLoad(fs[CachePath].body).fwd.dependencies[1]
                 = [path |-> PrebuiltPath, size |-> fs[PrebuiltPath].size,
                    lastModificationTime |-> fs[PrebuiltPath].mtime]
    /\ (pc = "discovered" /\ ForwardsTo(fs, PrebuiltPath)
            /\ (~Status(fs, PrebuiltPath).exists
                   \/ Status(fs, PrebuiltPath).size
                         # ForwardingModuleLoad(fs[CachePath].body).fwd.dependencies[1].size
                   \/ Status(fs, PrebuiltPath).mtime
                         # ForwardingModuleLoad(fs[CachePath].body).fwd.dependencies[1]
                              .lastModificationTime))
           => cur.kind # "Forwarded"

\* C29 witness: a load wrote the forwarding module, the prebuilt module was
\* then written anew (same contents, later mtime), and the next discovery
\* has not returned Forwarded.
C29_Witness ==
    /\ pc = "discovered"
    /\ loadMode # "OnlyParseable"
    /\ prev.kind = "Prebuilt"
    /\ prev.wrote = {CachePath}
    /\ ForwardsTo(fs, PrebuiltPath)
    /\ ValidModuleAt(fs, PrebuiltPath)
    /\ FwdRecordBroken(fs, PrebuiltPath)
    /\ ~FwdRecordBroken(fs, DepA)
    /\ ~FwdRecordBroken(fs, InPath)
    /\ cur.kind # "Forwarded"

-----------------------------------------------------------------------------
\* discovery of the same module in the same files before the load that found
\* the prebuilt module wrote its forwarding module: the user cache is empty
FirstLoadDiscovery ==
    discoverUpToDateModuleForInterface([fs EXCEPT ![CachePath] = NoFile], loadMode,
        SDKPath, InPath, ModPath, CachePath, PrebuiltCacheDir, ModuleName)

\* C33: for the same module and unchanged files, the load that resolves as
\* Forwarded reports to the dependency tracker the same set of (path,
\* is-system) pairs as the load before it that resolved as Prebuilt, and
\* every dependency stored SDK-relative in the prebuilt module is reported
\* as a system dependency.
C33_TrackerEquivalence ==
    (pc = "discovered" /\ cur.kind = "Forwarded" /\ cur.quiet
        /\ prev.kind = "Prebuilt" /\ prev.wrote = {CachePath}
        /\ FirstLoadDiscovery.kind = "Prebuilt")
       => /\ cur.tracked = FirstLoadDiscovery.tracked
          /\ \A i \in DOMAIN fs[cur.path].body.deps :
                 fs[cur.path].body.deps[i].sdkRel
                    => <<ResolvedPath(fs[cur.path].body.deps[i]), TRUE>> \in cur.tracked

(* The cache key of two loads that differ in some respect *)

\* what a load is made with: the compiler, the sub-invocation (effective
\* language version, target, SDK, dependency tracking), the interface it is
\* pointed at, and the contents of the interface and of its dependencies
KeyLoad(compilerVersion, languageVersion, interfacePath, interfaceBytes, depBytes, archName, sdkPath, trackSystemDeps) ==
    [compilerVersion |-> compilerVersion, languageVersion |-> languageVersion,
     interfacePath |-> interfacePath, interfaceBytes |-> interfaceBytes,
     depBytes |-> depBytes, archName |-> archName, sdkPath |-> sdkPath,
     trackSystemDeps |-> trackSystemDeps]

\* the cache path had the key been made of the effective language version too
cachedOutputPathWithLanguageVersion(l) ==
    computeCachedOutputPath(CacheDir, ModuleName, l.compilerVersion \o l.languageVersion,
                            l.interfacePath, l.archName, l.sdkPath, l.trackSystemDeps)

\* findOrBuildLoadableModule: cachedOutputPath of the load l
cachedOutputPathOfLoad(l) ==
    computeCachedOutputPath(CacheDir, ModuleName, l.compilerVersion, l.interfacePath,
                            l.archName, l.sdkPath, l.trackSystemDeps)

KeyBase ==
    KeyLoad(SwiftFullVersion, <<"4">>, InPathOf(SDKPath), 1, 1, ArchName, SDKPath, FALSE)

\* the other value of each respect in which two loads can differ
KeyOther(field, v) ==
    CASE field = "compilerVersion" -> IF v = SwiftFullVersion THEN <<"6">> ELSE SwiftFullVersion
      [] field = "languageVersion" -> IF v = <<"4">> THEN <<"5">> ELSE <<"4">>
      [] field = "interfacePath" ->
             IF v = InPathOf(SDKPath) THEN InPathOf(OtherDir) ELSE InPathOf(SDKPath)
      [] field = "archName" -> IF v = ArchName THEN <<"a">> ELSE ArchName
      [] field = "sdkPath" -> IF v = SDKPath THEN OtherDir ELSE SDKPath
      [] field = "trackSystemDeps" -> ~v
      [] OTHER -> 3 - v

KeyInit ==
    /\ cur = [a |-> KeyBase, b |-> KeyBase]
    /\ pc = "key"
    /\ fs = InitFiles
    /\ loadMode = "PreferSerialized"
    /\ dir = SDKPath
    /\ prev = Summary(NoLoad)
    /\ dirty = FALSE
    /\ nLoads = 0
    /\ nEnv = 0

\* the second load is made with another value of field
KeyChange(field) ==
    /\ cur' = [cur EXCEPT !.b[field] = KeyOther(field, @)]
    /\ UNCHANGED <<fs, loadMode, dir, pc, prev, dirty, nLoads, nEnv>>

KeyChangeInterfaceContent ==
    /\ pc = "key"
    /\ KeyChange("interfaceBytes")

KeyChangeDependencyContent ==
    /\ pc = "key"
    /\ KeyChange("depBytes")

KeyChangeLanguageVersion ==
    /\ pc = "key"
    /\ KeyChange("languageVersion")

KeyChangeCompilerVersion ==
    /\ pc = "key"
    /\ KeyChange("compilerVersion")

KeyChangeInterfacePath ==
    /\ pc = "key"
    /\ KeyChange("interfacePath")

KeyChangeArch ==
    /\ pc = "key"
    /\ KeyChange("archName")

KeyChangeSDK ==
    /\ pc = "key"
    /\ KeyChange("sdkPath")

KeyChangeTracking ==
    /\ pc = "key"
    /\ KeyChange("trackSystemDeps")


KeyNext ==
    \/ KeyChangeInterfaceContent
    \/ KeyChangeDependencyContent
    \/ KeyChangeLanguageVersion
    \/ KeyChangeCompilerVersion
    \/ KeyChangeInterfacePath
    \/ KeyChangeArch
    \/ KeyChangeSDK
    \/ KeyChangeTracking

SpecKey == KeyInit /\ [][KeyNext]_vars

\* the two loads agree on what the key is documented to be made of
SameKeyInputs(a, b) ==
    /\ a.compilerVersion = b.compilerVersion
    /\ a.interfacePath = b.interfacePath
    /\ a.archName = b.archName
    /\ a.sdkPath = b.sdkPath
    /\ a.trackSystemDeps = b.trackSystemDeps

\* C14: two loads that agree on the compiler version, the interface path, the
\* target architecture, the SDK path and the track-system-deps flag compute
\* the same cache path, whatever the interface's content, the language
\* version and the contents of the dependencies are.
C14_CacheKeyStability ==
    SameKeyInputs(cur.a, cur.b)
        => cachedOutputPathOfLoad(cur.a) = cachedOutputPathOfLoad(cur.b)

\* C14 witness: the loads differ in the interface's content, the language
\* version and a dependency's content, and in nothing the key is made of.
C14_Witness ==
    /\ pc = "key"
    /\ SameKeyInputs(cur.a, cur.b)
    /\ cur.a.interfaceBytes # cur.b.interfaceBytes
    /\ cur.a.languageVersion # cur.b.languageVersion
    /\ cur.a.depBytes # cur.b.depBytes
    /\ cachedOutputPathOfLoad(cur.a) = cachedOutputPathOfLoad(cur.b)

-----------------------------------------------------------------------------
(* The builder run on interfaces of every kind, with cached modules among *)
(* the files the sub-compilation reads                                     *)

MaxDepBuilds == 2

\* a file outside the SDK
DepP == <<"/", "P", "/", "b">>

\* a file the sub-compilation names that is not there
DepMissing == <<"/", "S", "/", "z">>

\* a module G the target imports: its interface, and its binary modules in
\* the user cache and in the prebuilt cache
DepModuleName == <<"G">>
DepInterface == <<"/", "S", "/", "G", ".", "i">>
CachedDep == PathAppend(CacheDir, <<"G", ".", "m">>)
PrebuiltDep == PathAppend(PrebuiltCacheDir, <<"G", ".", "m">>)

\* what the sub-compilation of the target reads, in the order it reports it
BuildImportLists ==
    {<<DepA>>, <<DepA, CachedDep>>, <<CachedDep, DepP>>, <<PrebuiltDep, DepA>>,
     <<DepP, CachedDep, PrebuiltDep>>, <<DepA, DepMissing>>}

DepImportLists == {<<DepA>>, <<DepA, DepP>>}

\* the interfaces of the target: every version, either module name, every
\* import list, and interfaces lacking the version or the flags line
BuildInterfaces ==
    {InterfaceBody(TRUE, v, TRUE, n, i) :
        v \in {<<1, 0>>, <<1, 1>>, <<2, 0>>}, n \in {ModuleName, DepModuleName},
        i \in BuildImportLists}
      \cup {InterfaceBody(FALSE, <<1, 0>>, TRUE, ModuleName, <<DepA>>),
            InterfaceBody(TRUE, <<1, 0>>, FALSE, ModuleName, <<DepA>>)}

BuildPaths == {InPathOf(SDKPath), DepInterface, DepA, DepP, DepMissing, CachedDep, PrebuiltDep, CachePathOf(SDKPath)}

\* a run of the builder: its result, and the file its output path held before
NoBuild ==
    [failed |-> FALSE, why |-> "", tracked |-> {}, stage |-> "", hashes |-> FALSE,
     before |-> NoFile]

BuildInit ==
    /\ \E target \in BuildInterfaces, imports \in DepImportLists :
          fs = [p \in BuildPaths |->
                   IF p = InPathOf(SDKPath) THEN MkFile(1, 1, 1, target)
                   ELSE IF p = DepInterface
                   THEN MkFile(1, 1, 1, InterfaceBody(TRUE, <<1, 0>>, TRUE,
                                                      DepModuleName, imports))
                   ELSE IF p \in {DepA, DepP} THEN MkFile(1, 1, 1, TextBody)
                   ELSE NoFile]
    /\ pc = "building"
    /\ cur = NoBuild
    /\ loadMode = "PreferSerialized"
    /\ dir = SDKPath
    /\ prev = Summary(NoLoad)
    /\ dirty = FALSE
    /\ nLoads = 0
    /\ nEnv = 0

\* the imported module is built into the user cache (by a load, which asks
\* for mtime records) or into the prebuilt cache (by the tool)
BuildDependencyModule ==
    /\ pc = "building"
    /\ nEnv < MaxDepBuilds
    /\ \E how \in {<<CachedDep, FALSE>>, <<PrebuiltDep, FALSE>>, <<PrebuiltDep, TRUE>>} :
          LET b == buildSwiftModule(fs, DepInterface, DepModuleName, SDKPath, CacheDir,
                                    PrebuiltCacheDir, how[1], TRUE, how[2], "ok")
          IN  /\ ~b.failed
              /\ fs' = b.fs
    /\ nEnv' = nEnv + 1
    /\ UNCHANGED <<loadMode, dir, pc, cur, prev, dirty, nLoads>>

\* a load of the imported module found it in the prebuilt cache and wrote a
\* forwarding module to it into the user cache
ForwardDependencyModule ==
    /\ pc = "building"
    /\ nEnv < MaxDepBuilds
    /\ ModuleUpToDate(fs, PrebuiltDep)
    /\ fs' = [fs EXCEPT ![CachedDep] =
                 ForwardingFile(@, assembleForwardingModule(fs, PrebuiltDep,
                                       fs[PrebuiltDep].body.deps, <<0, 0>>))]
    /\ nEnv' = nEnv + 1
    /\ UNCHANGED <<loadMode, dir, pc, cur, prev, dirty, nLoads>>

\* another process writes other contents of the same size into a file the
\* imported module was built from, keeping its mtime
RewriteDependency ==
    /\ pc = "building"
    /\ ~dirty
    /\ fs' = [fs EXCEPT ![DepA].bytes = @ + 1]
    /\ dirty' = TRUE
    /\ UNCHANGED <<loadMode, dir, pc, cur, prev, nLoads, nEnv>>

\* buildSwiftModule of the target, with the cache path as output
BuildTargetModule ==
    /\ pc = "building"
    /\ \E stage \in BuildStages, hashes \in BOOLEAN :
          LET b == buildSwiftModule(fs, InPath, ModuleName, SDKPath, CacheDir,
                                    PrebuiltCacheDir, CachePath, TRUE, hashes, stage)
          IN  /\ fs' = b.fs
              /\ cur' = [failed |-> b.failed, why |-> b.why, tracked |-> b.tracked,
                         stage |-> stage, hashes |-> hashes, before |-> fs[CachePath]]
    /\ pc' = "built"
    /\ UNCHANGED <<loadMode, dir, prev, dirty, nLoads, nEnv>>

BuildNext ==
    \/ BuildDependencyModule
    \/ ForwardDependencyModule
    \/ RewriteDependency
    \/ BuildTargetModule

SpecBuild == BuildInit /\ [][BuildNext]_vars

\* the dependency lists the builder has produced
BuiltLists ==
    {fs[p].body.deps : p \in {q \in {CachedDep, PrebuiltDep, CachePath} :
                                  fs[q].exists /\ fs[q].body.kind = "ast"}}

\* path has the binary-module extension and lies under one of the caches
CachedModulePath(path) ==
    /\ PathExtension(path) = <<".">> \o SwiftModuleExt
    /\ HasPathPrefix(path, CacheDir) \/ HasPathPrefix(path, PrebuiltCacheDir)

\* the target's interface can be read and has its version and flags lines
TargetWellFormed ==
    /\ fs[InPath].body.hasVers
    /\ fs[InPath].body.hasFlags

\* C15: no record of a dependency list the builder produces names a
\* binary module under the user cache or the prebuilt cache; where the
\* sub-compilation read such a module, the files named by the records
\* embedded in it are named in the list instead.
C15_TransitiveFlattening ==
    /\ \A deps \in BuiltLists : \A i \in DOMAIN deps :
          /\ ~CachedModulePath(ResolvedPath(deps[i]))
          /\ ~CachedModulePath(deps[i].path)
    /\ (pc = "built" /\ fs[CachePath] # cur.before)
           => \A k \in DOMAIN fs[InPath].body.imports :
                 CachedModulePath(fs[InPath].body.imports[k])
                     => \A r \in {fs[fs[InPath].body.imports[k]].body.deps[j] :
                                   j \in DOMAIN fs[fs[InPath].body.imports[k]].body.deps} :
                           \E i \in DOMAIN fs[CachePath].body.deps :
                              ResolvedPath(fs[CachePath].body.deps[i]) = ResolvedPath(r)

\* C15 witness: the target was built from reading a file and the imported
\* module in both caches.
C15_Witness ==
    /\ pc = "built"
    /\ fs[CachePath] # cur.before
    /\ fs[InPath].body.imports = <<DepP, CachedDep, PrebuiltDep>>
    /\ Len(fs[CachePath].body.deps) > 2

\* C16: no two records of a dependency list the builder produces describe
\* the same file.
C16_Deduplicated ==
    \A deps \in BuiltLists : \A i, j \in DOMAIN deps :
        i # j => ResolvedPath(deps[i]) # ResolvedPath(deps[j])

\* the sub-compilation of the target gets as far as collecting dependencies
ReachesCollection ==
    /\ TargetWellFormed
    /\ ~versionRejected(fs[InPath].body.vers)
    /\ fs[InPath].body.name = ModuleName
    /\ cur.stage \notin {"parseArgs", "sema", "crash"}

\* the file the sub-compilation names cannot be recorded: it is not there,
\* or it is a module in one of the caches that cannot be opened or is no
\* valid serialized module
Malformed(f, DepName) ==
    IF CachedModulePath(DepName) THEN ~ValidModuleAt(f, DepName)
    ELSE ~Status(f, DepName).exists

\* C23: when a file the sub-compilation read cannot be statted, or is a
\* cached binary module that cannot be opened or does not validate (a
\* forwarding module, for one), buildSwiftModule fails for want of a
\* dependency list and leaves the output path as it was, at whatever later
\* point the sub-compilation would have ended.
C23_MalformedDependencyAborts ==
    (pc = "built" /\ ReachesCollection
        /\ \E k \in DOMAIN fs[InPath].body.imports :
               Malformed(fs, fs[InPath].body.imports[k]))
       => /\ cur.failed
          /\ cur.why = "deps"
          /\ fs[CachePath] = cur.before

\* C23 witness: the target imports G, whose entry in the user cache is a
\* forwarding module, and a sub-compilation that would have succeeded has
\* failed.
C23_Witness ==
    /\ pc = "built"
    /\ cur.stage = "ok"
    /\ fs[CachedDep].exists
    /\ fs[CachedDep].body.kind = "yaml"
    /\ \E k \in DOMAIN fs[InPath].body.imports : fs[InPath].body.imports[k] = CachedDep
    /\ cur.failed
    /\ cur.why = "deps"

\* the loader of the sub-compilation, asked for the imported module, returns
\* the module at path
SubLoads(f, path) ==
    LET d == discoverUpToDateModuleForInterface(f, "PreferParseable", SDKPath,
                 DepInterface, PathReplaceExtension(DepInterface, SwiftModuleExt),
                 CachedDep, PrebuiltCacheDir, DepModuleName)
    IN  /\ d.kind \in {"Normal", "Forwarded", "Prebuilt"}
        /\ d.path = path

\* C30: right after buildSwiftModule has succeeded and written the entry,
\* with every cached module the sub-compilation read being one its loader
\* returns, the entry is up to date: the next load's user-cache probe hits.
C30_FreshlyBuiltIsFresh ==
    (pc = "built" /\ ~cur.failed /\ fs[CachePath] # cur.before
        /\ \A k \in DOMAIN fs[InPath].body.imports :
               CachedModulePath(fs[InPath].body.imports[k])
                  => SubLoads(fs, fs[InPath].body.imports[k]))
       => /\ dependenciesAreUpToDate(fs, fs[CachePath].body.deps)
          /\ UserCacheProbe(fs, CachePath, <<>>).hit

\* C31: whenever buildSwiftModule returns failure, at whatever step, the
\* file at the output path has the same content, or the same absence, as
\* before the call.
C31_FailedBuildLeavesCache ==
    (pc = "built" /\ cur.failed) => fs[CachePath] = cur.before

\* C32: every dependency record of the module one run of buildSwiftModule
\* has written has the verifier the hash-mode flag of that run selects,
\* the records copied from flattened cached modules included.
C32_UniformVerifierKind ==
    (pc = "built" /\ ~cur.failed /\ fs[CachePath] # cur.before)
       => \A i \in DOMAIN fs[CachePath].body.deps :
              fs[CachePath].body.deps[i].hashBased = cur.hashes

\* C18: when the interface's flags give another module name than the one
\* asked for, buildSwiftModule fails with the name-mismatch diagnostic and
\* leaves the output path as it was.
C18_NameMismatchFails ==
    (pc = "built" /\ TargetWellFormed /\ ~versionRejected(fs[InPath].body.vers)
        /\ cur.stage # "parseArgs" /\ fs[InPath].body.name # ModuleName)
       => /\ cur.failed
          /\ cur.why = "nameMismatch"
          /\ fs[CachePath] = cur.before

\* C18 witness: the flags name G, the module asked for is F, and the build
\* has failed whatever the sub-compilation would have done.
C18_Witness ==
    /\ pc = "built"
    /\ fs[InPath].body.name = DepModuleName
    /\ fs[InPath].body.vers = <<1, 1>>
    /\ cur.stage = "ok"
    /\ cur.why = "nameMismatch"
    /\ cur.failed

\* C19: buildSwiftModule fails with the unsupported-version diagnostic
\* exactly when the major component of the interface's version differs from
\* the supported one, whatever the minor component; it then fails before
\* the sub-compilation is set up (whatever that would have done, nothing
\* read is reported) and leaves the output path as it was.
C19_VersionGate ==
    (pc = "built" /\ TargetWellFormed) =>
        /\ cur.why = "unsupportedVersion"
               <=> fs[InPath].body.vers[1] # InterfaceFormatMajor
        /\ cur.why = "unsupportedVersion"
               => /\ cur.failed
                  /\ cur.tracked = {}
                  /\ fs[CachePath] = cur.before

\* C19 witness: an interface of version 2.0 has been rejected in a run whose
\* sub-compilation would have succeeded.
C19_Witness ==
    /\ pc = "built"
    /\ fs[InPath].body.vers = <<2, 0>>
    /\ cur.stage = "ok"
    /\ cur.failed
    /\ cur.why = "unsupportedVersion"

-----------------------------------------------------------------------------
(* Forwarding modules written as YAML and read back *)

MaxFwdDeps == 2

\* a forwarding module of any version, with no dependency yet
YamlInit ==
    /\ \E path \in {PrebuiltPath, PrebuiltDep}, version \in {0, 1, 2} :
          cur = [fwd |-> ForwardingModule(path, <<>>, version),
                 loaded |-> [result |-> "none", fwd |-> ForwardingModule(<<>>, <<>>, 1)]]
    /\ pc = "yaml"
    /\ fs = InitFiles
    /\ loadMode = "PreferSerialized"
    /\ dir = SDKPath
    /\ prev = Summary(NoLoad)
    /\ dirty = FALSE
    /\ nLoads = 0
    /\ nEnv = 0

\* ForwardingModule::addDependency
YamlAddDependency ==
    /\ pc = "yaml"
    /\ Len(cur.fwd.dependencies) < MaxFwdDeps
    /\ \E path \in {DepA, DepP}, size \in {0, 1}, modTime \in {0, 1} :
          cur' = [cur EXCEPT !.fwd = FwdAddDependency(@, path, size, modTime)]
    /\ UNCHANGED <<fs, loadMode, dir, pc, prev, dirty, nLoads, nEnv>>

\* yamlOut << fwd, then ForwardingModule::load of the buffer written
YamlWriteAndLoad ==
    /\ pc = "yaml"
    /\ cur' = [cur EXCEPT !.loaded = ForwardingModuleLoad(YamlBody(YamlOutput(cur.fwd)))]
    /\ pc' = "loaded"
    /\ UNCHANGED <<fs, loadMode, dir, prev, dirty, nLoads, nEnv>>

YamlNext ==
    \/ YamlAddDependency
    \/ YamlWriteAndLoad

SpecYaml == YamlInit /\ [][YamlNext]_vars

\* C17: a forwarding module of version 1 written with the YAML mapping is
\* loaded back with the same underlying path, the same dependencies in the
\* same order and the same version; one of any other version fails to load
\* with NotSupported.
C17_ForwardingRoundTrip ==
    pc = "loaded" =>
        /\ cur.fwd.version = 1
              => /\ cur.loaded.result = "ok"
                 /\ cur.loaded.fwd.underlyingModulePath = cur.fwd.underlyingModulePath
                 /\ cur.loaded.fwd.dependencies = cur.fwd.dependencies
                 /\ cur.loaded.fwd.version = cur.fwd.version
        /\ cur.fwd.version # 1 => cur.loaded.result = "NotSupported"

\* C17 witness: a version-1 forwarding module with two different
\* dependencies, whose sizes differ from their times, has been read back.
C17_Witness ==
    /\ pc = "loaded"
    /\ cur.fwd.version = 1
    /\ Len(cur.fwd.dependencies) = 2
    /\ cur.fwd.dependencies[1].path # cur.fwd.dependencies[2].path
    /\ cur.fwd.dependencies[1].size # cur.fwd.dependencies[1].lastModificationTime
    /\ cur.loaded.result = "ok"

-----------------------------------------------------------------------------
(* Discovery under every setting of the SDK root and the prebuilt cache   *)
(* directory, for interfaces inside and outside the SDK                    *)

\* the settings: the loader's SDK root and prebuilt cache directory, the
\* directory it looks in and its mode.  Without an SDK root no record is
\* SDK-relative, so that setting is paired with the mode that reads no
\* module built under another root.
GateSettings ==
    {[sdkPath |-> SDKPath, prebuiltCacheDir |-> PrebuiltCacheDir, dir |-> d, mode |-> m] :
        d \in Dirs, m \in {"PreferParseable", "PreferSerialized"}}
      \cup {[sdkPath |-> SDKPath, prebuiltCacheDir |-> <<>>, dir |-> SDKPath, mode |-> m] :
               m \in {"PreferParseable", "PreferSerialized"}}
      \cup {[sdkPath |-> <<>>, prebuiltCacheDir |-> PrebuiltCacheDir, dir |-> SDKPath,
             mode |-> "PreferParseable"]}

GateInit ==
    /\ \E g \in GateSettings :
          /\ dir = g.dir
          /\ loadMode = g.mode
          /\ cur = [NoLoad EXCEPT !.why = [sdkPath |-> g.sdkPath,
                                           prebuiltCacheDir |-> g.prebuiltCacheDir]]
          /\ fs = [p \in FsPaths(g.dir) |->
                      IF p = InPathOf(g.dir)
                      THEN MkFile(1, 1, 1, InterfaceBody(TRUE, <<1, 0>>, TRUE, ModuleName,
                                                         <<DepA>>))
                      ELSE IF p = DepA THEN MkFile(1, 1, 1, TextBody)
                      ELSE NoFile]
    /\ pc = "idle"
    /\ prev = Summary(NoLoad)
    /\ dirty = FALSE
    /\ nLoads = 0
    /\ nEnv = 0

\* discoverUpToDateModuleForInterface under the loader's setting
GateDiscover ==
    /\ pc = "idle"
    /\ nLoads < MaxLoads
    /\ interfaceExists(fs, InPath)
    /\ LET d == discoverUpToDateModuleForInterface(fs, loadMode, cur.why.sdkPath, InPath,
                    ModPath, CachePath, cur.why.prebuiltCacheDir, ModuleName)
       IN  cur' = [cur EXCEPT !.kind = d.kind, !.path = d.path, !.buf = d.buf,
                              !.deps = d.deps, !.opens = d.opens,
                              !.tracked = d.tracked, !.quiet = ~dirty]
    /\ prev' = Summary(cur)
    /\ pc' = "discovered"
    /\ dirty' = FALSE
    /\ nLoads' = nLoads + 1
    /\ UNCHANGED <<fs, loadMode, dir, nEnv>>

GateNext ==
    \/ GateDiscover
    \/ ToolBuild
    \/ Touch
    \/ Remove
    \/ Damage

SpecGate == GateInit /\ [][GateNext]_vars

\* the prebuilt probe is not enabled under the setting of the load
GateClosed ==
    \/ cur.why.sdkPath = <<>>
    \/ cur.why.prebuiltCacheDir = <<>>
    \/ ~HasPathPrefix(InPath, cur.why.sdkPath)

\* C21: when the SDK root or the prebuilt cache directory is empty, or the
\* interface path is not prefixed by the SDK root, discovery does not return
\* Prebuilt and opens no file under the prebuilt cache directory, whatever
\* lies there.
C21_PrebuiltProbeGated ==
    (pc = "discovered" /\ GateClosed)
       => /\ cur.kind # "Prebuilt"
          /\ \A i \in DOMAIN cur.opens : ~StartsWith(cur.opens[i], PrebuiltCacheDir)

\* C21 witness: the interface lies outside the SDK, the prebuilt cache holds
\* an up-to-date module for it, and discovery has found nothing.
C21_Witness ==
    /\ pc = "discovered"
    /\ dir = OtherDir
    /\ ModuleUpToDate(fs, PrebuiltPath)
    /\ cur.kind = "NotFound"

-----------------------------------------------------------------------------
(* Loads of a prebuilt module while another process modifies its          *)
(* dependencies between discovery and the writing of the forwarding module *)

\* the prebuilt cache holds an up-to-date module, the user cache nothing
RaceInit ==
    /\ \E hashes \in BOOLEAN :
          fs = buildSwiftModule(InitFiles, InPathOf(SDKPath), ModuleName, SDKPath, CacheDir,
                                PrebuiltCacheDir, PrebuiltPath, TRUE, hashes, "ok").fs
    /\ loadMode \in {"PreferParseable", "PreferSerialized"}
    /\ dir = SDKPath
    /\ pc = "idle"
    /\ cur = NoLoad
    /\ prev = Summary(NoLoad)
    /\ dirty = FALSE
    /\ nLoads = 0
    /\ nEnv = 0

\* another process writes to a dependency of the prebuilt module after
\* discovery has checked it and before writeForwardingModule stats it
RaceModify ==
    /\ pc = "discovered"
    /\ cur.kind = "Prebuilt"
    /\ nEnv < MaxEnv
    /\ \E p \in {DepA, InPath} :
          \/ EnvStep([fs EXCEPT ![p].mtime = @ + 1])
          \/ EnvStep([fs EXCEPT ![p].size = @ + 1, ![p].bytes = @ + 1, ![p].mtime = @ + 1])
          \/ EnvStep([fs EXCEPT ![p].bytes = @ + 1])

RaceNext ==
    \/ LoadDiscover
    \/ RaceModify
    \/ ReturnPrebuilt
    \/ ReturnDiscovered
    \/ BuildOnMiss

SpecRace == RaceInit /\ [][RaceNext]_vars

\* C24: writeForwardingModule records the size and mtime its own stat
\* gives, so when a dependency of the prebuilt module was modified after
\* discovery had checked it, the forwarding module written matches the files
\* as they are now, and the next load returns Forwarded for the prebuilt
\* module, whether or not the records embedded in that module still match.
C24_RestatRace ==
    /\ (pc = "idle" /\ cur.kind = "Prebuilt" /\ cur.wrote = {CachePath})
           => /\ ForwardsTo(fs, PrebuiltPath)
              /\ ForwardingUpToDate(fs, CachePath)
    /\ (pc = "discovered" /\ prev.kind = "Prebuilt" /\ prev.wrote = {CachePath})
           => /\ cur.kind = "Forwarded"
              /\ cur.path = PrebuiltPath

\* C24 witness: a dependency was modified between the discovery of the
\* prebuilt module and the writing of the forwarding module, and the next
\* load has found Forwarded although a record embedded in the prebuilt
\* module does not match its file.
C24_Witness ==
    /\ pc = "discovered"
    /\ nEnv >= 1
    /\ prev.kind = "Prebuilt"
    /\ cur.kind = "Forwarded"
    /\ ~AllMatch(fs, fs[PrebuiltPath].body.deps)

====
